---- MODULE Spec2Model ----
(***************************************************************************)
(* Model of the support-ticket ingestion service:                          *)
(*   - LockService      (src/src/services/lock_service.py)                  *)
(*   - RateLimiter      (src/src/services/rate_limiter.py)                  *)
(*   - SyncService      (src/src/services/sync_service.py)                  *)
(*   - IngestService    (src/src/services/ingest_service.py)                *)
(*   - NotifyService    (src/src/services/notify_service.py)                *)
(*   - ClassifyService  (src/src/services/classify_service.py)              *)
(*   - AnalyticsService (src/src/services/analytics_service.py)             *)
(* The document store is modelled as sets of documents; every store call   *)
(* (find_one, insert_one, update_one, find_one_and_update, delete_one) is  *)
(* one atomic step, and every await between two store calls is a point     *)
(* where other callers may run.                                            *)
(*                                                                         *)
(* The specifications share the definitions:                               *)
(*   SpecLock    callers of acquire_lock / release_lock / refresh_lock     *)
(*               on a clock that ticks;                                    *)
(*   SpecRate    callers of wait_and_acquire followed by                   *)
(*               _fetch_page_with_retry on a clock that ticks;             *)
(*   Spec        run_ingestion and cancel_job calls against the store, on  *)
(*               a clock that stands still (no lease expires during the    *)
(*               runs) and with a limiter that admits every call after     *)
(*               its wait; the external system answers each request with   *)
(*               200, 429 or an error, and may change its tickets.         *)
(*   SpecNotify  the background tasks of NotifyService, each call through  *)
(*               the circuit breaker ending in success, circuit-open or an *)
(*               error.                                                    *)
(*   SpecProgress  the page loop of run_ingestion writing the progress of  *)
(*               a job, with the total_pages of each response.             *)
(*   SpecClassify  ClassifyService.classify on subjects and messages.      *)
(*   SpecStats   AnalyticsService.get_tenant_stats on a tickets collection.*)
(*   SpecRefresh the page loop of run_ingestion and its lock refreshes.    *)
(*   SpecFire    one run_ingestion call and the notification tasks it      *)
(*               starts.                                                   *)
(*   SpecReingest  two runs in a row over a source that does not change.   *)
(*   SpecFaults  run_ingestion calls whose store calls in the except       *)
(*               clause may raise.                                         *)
(*   SpecReconcile  runs over a collection that already holds tickets.     *)
(*   SpecLive    run_ingestion calls sharing the limiter, with time        *)
(*               measured from the present instant and fair scheduling.    *)
(***************************************************************************)
EXTENDS Integers, Sequences, FiniteSets, TLC

\* ------------------------------------------------------------------ bounds
\* Last instant of the clock in SpecLock.
MaxTime == 5
\* Last instant of the clock in SpecRate.
RateMaxTime == 5
\* Number of pages each caller of SpecRate asks for.
RatePages == 2
\* Events of the environment in Spec: failed requests, failed ticket writes,
\* changes the external system makes to its tickets, cancellation requests.
MaxEvents == 1
\* run_ingestion calls that may be in flight together in Spec.
MaxActive == 2

\* ------------------------------------------------------- program constants
\* LockService.LOCK_TTL_SECONDS (60 in the source, scaled).
LOCK_TTL_SECONDS == 2
\* RateLimiter.requests_per_minute (60 in the source, scaled).
requests_per_minute == 2
\* RateLimiter.window_seconds (60 in the source, scaled).
window_seconds == 4
\* _fetch_page_with_retry(max_retries=3).
max_retries == 3
\* Cadence of refresh_lock in the page loop (page % 5 in the source, scaled).
RefreshEvery == 2

None == "None"

Max(a, b) == IF a >= b THEN a ELSE b

RECURSIVE Pow2(_)
Pow2(n) == IF n = 0 THEN 1 ELSE 2 * Pow2(n - 1)

VARIABLES
    now,            \* the clock (datetime.utcnow() / time.time())
    \* ---- distributed_locks collection and the callers of LockService
    locks,          \* set of lock documents
    lk_pc,          \* position of each lock caller
    lk_res,         \* resource of the call in progress
    lk_now,         \* `now` computed at the start of acquire_lock
    lk_ret,         \* last value returned to the caller by each operation
    lease,          \* resource and expires_at of the lease the caller last obtained,
                    \* and the calls it made on that resource after losing the row
    \* ---- RateLimiter and its callers
    request_times,  \* RateLimiter.request_times (deque of timestamps)
    rl_pc,          \* position of each caller
    rl_wake,        \* end of the asyncio.sleep in progress
    rl_attempt,     \* attempt of _fetch_page_with_retry
    rl_page,        \* page the caller is at
    grant_log,      \* times at which wait_and_acquire returned
    get_log,        \* times at which client.get was issued
    \* ---- the external source, the store and the calls of IngestService
    source,         \* tickets the external API currently serves
    edits,          \* number of changes made to the source so far
    faults,         \* number of failed requests and failed ticket writes so far
    tickets,        \* tickets collection
    jobs,           \* ingestion_jobs collection
    logs,           \* ingestion_logs collection
    history,        \* ticket_history collection: number of records per key
    notify_tasks,   \* payloads of the notification tasks created
    flags,          \* _cancellation_flags of each IngestService instance
    run,            \* locals and position of each run_ingestion call
    cancel,         \* locals and position of each cancel_job call
    order,          \* the run_ingestion calls in the order they started
    reingested,     \* keys of the tickets upserted again while soft-deleted
    \* ---- NotifyService
    notifier,       \* locals and position of each _send_with_retry task
    \* ---- the progress fields of a job row, page response by page response
    pg_jobs,        \* job rows whose progress is updated
    pg_run,         \* position and page of the page loop that updates each row
    \* ---- the lock refreshes of a page loop
    rf_run,         \* position, page and refreshes of each page loop
    \* ---- the job rows of the calls that share the rate limiter
    lv_jobs,        \* status of the job row of each caller of the limiter
    \* ---- ClassifyService
    cls_in,         \* the (subject, message) given to classify
    cls_out,        \* what classify returned
    \* ---- AnalyticsService
    st_tickets,     \* the tickets collection that get_tenant_stats reads
    st_query,       \* tenant_id, from_date and to_date of the call
    st_out          \* what get_tenant_stats returned

varsLock == <<locks, lk_pc, lk_res, lk_now, lk_ret, lease>>
varsRate == <<request_times, rl_pc, rl_wake, rl_attempt, rl_page, grant_log, get_log>>
varsIngest == <<source, edits, faults, tickets, jobs, logs, history, notify_tasks,
                flags, run, cancel, order, reingested>>
varsNotify == <<notifier>>
varsProgress == <<pg_jobs, pg_run>>
varsRefresh == <<rf_run>>
varsLive == <<lv_jobs>>
varsClassify == <<cls_in, cls_out>>
varsStats == <<st_tickets, st_query, st_out>>
varsServices == <<varsNotify, varsProgress, varsRefresh, varsLive, varsClassify, varsStats>>
vars == <<now, varsLock, varsRate, varsIngest, varsServices>>

\* ======================================================== LockService
LockCallers == {"o1", "o2"}
LockResources == {"ingest:t1", "ingest:t2"}

\* A caller that holds no lease.
NoLease == [res |-> None, exp |-> 0 - 1, lost |-> {}]

\* The unique index resource_id_unique on distributed_locks.
LockIndexAllows(coll, doc) == \A l \in coll : l.resource_id # doc.resource_id

\* insert_one: raises DuplicateKeyError when the unique index rejects the document.
InsertLock(coll, doc) == IF LockIndexAllows(coll, doc) THEN coll \cup {doc} ELSE coll

ExpiredLockFilter_AnyRow(l, r, t) == l.resource_id = r

\* Filter of acquire_lock's find_one_and_update: the row of the resource, expired.
ExpiredLockFilter(l, r, t) == l.resource_id = r /\ l.expires_at < t

OwnerLockFilter_AnyOwner(l, r, o) == l.resource_id = r

\* Filter of release_lock and refresh_lock: the row of the resource owned by o.
OwnerLockFilter(l, r, o) == l.resource_id = r /\ l.owner_id = o

LockDoc(r, o, t) ==
    [resource_id |-> r, owner_id |-> o, acquired_at |-> t,
     expires_at |-> t + LOCK_TTL_SECONDS]

\* find_one_and_update of acquire_lock: one matching document is updated.
StealExpired(coll, r, o, t) ==
    IF \E l \in coll : ExpiredLockFilter(l, r, t)
    THEN LET l == CHOOSE l \in coll : ExpiredLockFilter(l, r, t)
         IN (coll \ {l}) \cup {LockDoc(r, o, t)}
    ELSE coll

\* delete_one of release_lock.
DeleteLock(coll, r, o) ==
    IF \E l \in coll : OwnerLockFilter(l, r, o)
    THEN coll \ {CHOOSE l \in coll : OwnerLockFilter(l, r, o)}
    ELSE coll

\* update_one of refresh_lock.
ExtendLock(coll, r, o, t) ==
    IF \E l \in coll : OwnerLockFilter(l, r, o)
    THEN LET l == CHOOSE l \in coll : OwnerLockFilter(l, r, o)
         IN (coll \ {l}) \cup {[l EXCEPT !.expires_at = t + LOCK_TTL_SECONDS]}
    ELSE coll

\* acquire_lock, strategy 1: now is read, then the expired row is taken over.
AcquireLockUpdate(o, r) ==
    /\ lk_pc[o] = "idle"
    /\ lease[o].res \in {None, r}
    /\ LET matched == \E l \in locks : ExpiredLockFilter(l, r, now)
       IN /\ locks' = StealExpired(locks, r, o, now)
          /\ IF matched
             THEN /\ UNCHANGED <<lk_pc, lk_res, lk_now>>
                  /\ lk_ret' = [lk_ret EXCEPT ![o] = "acquire:true"]
                  /\ lease' = [lease EXCEPT ![o] = [res |-> r, exp |-> now + LOCK_TTL_SECONDS, lost |-> {}]]
             ELSE /\ lk_pc' = [lk_pc EXCEPT ![o] = "insert"]
                  /\ lk_res' = [lk_res EXCEPT ![o] = r]
                  /\ lk_now' = [lk_now EXCEPT ![o] = now]
                  /\ lk_ret' = [lk_ret EXCEPT ![o] = "pending"]
                  /\ lease' = lease
    /\ UNCHANGED <<now, varsServices, varsRate, varsIngest>>

\* acquire_lock, strategy 2: insert with the now read before strategy 1.
AcquireLockInsert(o) ==
    /\ lk_pc[o] = "insert"
    /\ LET doc == LockDoc(lk_res[o], o, lk_now[o])
           ok == LockIndexAllows(locks, doc)
       IN /\ locks' = InsertLock(locks, doc)
          /\ lk_ret' = [lk_ret EXCEPT ![o] = IF ok THEN "acquire:true" ELSE "acquire:false"]
          /\ lease' = [lease EXCEPT ![o] =
                          IF ok THEN [res |-> lk_res[o], exp |-> doc.expires_at, lost |-> {}] ELSE lease[o]]
    /\ lk_pc' = [lk_pc EXCEPT ![o] = "idle"]
    /\ lk_res' = [lk_res EXCEPT ![o] = None]
    /\ lk_now' = [lk_now EXCEPT ![o] = 0]
    /\ UNCHANGED <<now, varsServices, varsRate, varsIngest>>

\* release_lock; a caller that releases gives up the lease it believed to hold.
ReleaseLock(o, r) ==
    /\ lk_pc[o] = "idle"
    /\ LET deleted == \E l \in locks : OwnerLockFilter(l, r, o)
       IN /\ locks' = DeleteLock(locks, r, o)
          /\ lk_ret' = [lk_ret EXCEPT ![o] = IF deleted THEN "release:true" ELSE "release:false"]
    /\ lease' = [lease EXCEPT ![o] =
                    IF lease[o].res # r THEN lease[o]
                    ELSE IF \E l \in locks : l.resource_id = r /\ l.owner_id # o
                         THEN [NoLease EXCEPT !.lost = lease[o].lost \cup {"release"}]
                         ELSE NoLease]
    /\ UNCHANGED <<now, varsServices, lk_pc, lk_res, lk_now, varsRate, varsIngest>>

\* refresh_lock; modified_count is 0 when no row matches or when the row
\* already carries the new expires_at.
RefreshLock(o, r) ==
    /\ lk_pc[o] = "idle"
    /\ LET matched == \E l \in locks : OwnerLockFilter(l, r, o)
           after == ExtendLock(locks, r, o, now)
       IN /\ locks' = after
          /\ lk_ret' = [lk_ret EXCEPT ![o] =
                           IF after # locks THEN "refresh:true" ELSE "refresh:false"]
          /\ lease' = [lease EXCEPT ![o] =
                          IF matched THEN [res |-> r, exp |-> now + LOCK_TTL_SECONDS, lost |-> {}]
                          ELSE IF lease[o].res = r
                                  /\ \E l \in locks : l.resource_id = r /\ l.owner_id # o
                               THEN [lease[o] EXCEPT !.lost = @ \cup {"refresh"}]
                               ELSE lease[o]]
    /\ UNCHANGED <<now, varsServices, lk_pc, lk_res, lk_now, varsRate, varsIngest>>

TickLock ==
    /\ now < MaxTime
    /\ now' = now + 1
    /\ UNCHANGED <<varsLock, varsRate, varsIngest, varsServices>>

InitLockVars ==
    /\ locks = {}
    /\ lk_pc = [o \in LockCallers |-> "idle"]
    /\ lk_res = [o \in LockCallers |-> None]
    /\ lk_now = [o \in LockCallers |-> 0]
    /\ lk_ret = [o \in LockCallers |-> None]
    /\ lease = [o \in LockCallers |-> NoLease]

\* ======================================================== RateLimiter
RateCallers == {"p1", "p2"}
\* Values of the Retry-After header the source sends with a 429.
RetryAfterValues == {1}
Responses == {"200", "429", "error"}

RECURSIVE Evict(_, _)
\* acquire(): drop the timestamps that left the window.
Evict(q, t) ==
    IF q # <<>> /\ t - Head(q) > window_seconds THEN Evict(Tail(q), t) ELSE q

AcquireWait_NeverAdmits(q, t) ==
    IF q = <<>> THEN 1 ELSE Max(1, window_seconds - (t - Head(q)))

\* acquire(): the value returned, given the queue after eviction.
AcquireWait(q, t) ==
    IF Len(q) < requests_per_minute THEN 0
    ELSE Max(0, window_seconds - (t - Head(q)))

\* acquire(): the queue it leaves.
AcquireQueue(q, t) ==
    IF Len(q) < requests_per_minute THEN Append(q, t) ELSE q

\* A caller enters the page loop: wait_and_acquire is called.
RateStart(p) ==
    /\ rl_pc[p] = "idle"
    /\ rl_pc' = [rl_pc EXCEPT ![p] = "acquire"]
    /\ UNCHANGED <<now, varsServices, varsLock, varsIngest, request_times, rl_wake, rl_attempt, rl_page,
                   grant_log, get_log>>

\* wait_and_acquire: one call of acquire(); a positive wait is slept, anything
\* else returns to the caller.
WaitAndAcquire(p) ==
    /\ rl_pc[p] = "acquire"
    /\ LET q == Evict(request_times, now)
           w == AcquireWait(q, now)
       IN /\ request_times' = AcquireQueue(q, now)
          /\ IF w > 0
             THEN /\ rl_pc' = [rl_pc EXCEPT ![p] = "sleep"]
                  /\ rl_wake' = [rl_wake EXCEPT ![p] = now + w]
                  /\ grant_log' = grant_log
             ELSE /\ rl_pc' = [rl_pc EXCEPT ![p] = "get"]
                  /\ rl_wake' = rl_wake
                  /\ grant_log' = Append(grant_log, now)
    /\ UNCHANGED <<now, varsServices, varsLock, varsIngest, rl_attempt, rl_page, get_log>>

\* asyncio.sleep(wait_time) ends; wait_and_acquire calls itself again.
RateWake(p) ==
    /\ rl_pc[p] = "sleep"
    /\ now >= rl_wake[p]
    /\ rl_pc' = [rl_pc EXCEPT ![p] = "acquire"]
    /\ UNCHANGED <<now, varsServices, varsLock, varsIngest, request_times, rl_wake, rl_attempt, rl_page,
                   grant_log, get_log>>

FetchOutcome_ErrorsGiveNone(attempt, resp) ==
    CASE resp = "200" -> "return"
      [] OTHER        -> IF attempt + 1 < max_retries THEN "retry" ELSE "none"

\* _fetch_page_with_retry: what follows a response on a given attempt.
\*   "return"  the decoded page is returned
\*   "retry"   the loop goes on to the next attempt (after a sleep)
\*   "none"    the loop is exhausted and None is returned
\*   "raise"   the error propagates
FetchOutcome(attempt, resp) ==
    CASE resp = "200" -> "return"
      [] resp = "429" -> IF attempt + 1 < max_retries THEN "retry" ELSE "none"
      [] OTHER        -> IF attempt = max_retries - 1 THEN "raise" ELSE "retry"

\* _fetch_page_with_retry: the sleep before the next attempt.
FetchSleep(attempt, resp, retry_after) ==
    IF resp = "429" THEN retry_after ELSE Pow2(attempt)

\* Next position of a caller whose page fetch ended: the next page, or the end.
AfterPage(p, outcome) ==
    IF outcome = "return" /\ rl_page[p] < RatePages THEN "acquire" ELSE "done"

\* One client.get(url) of _fetch_page_with_retry and the handling of its response.
RateGet(p, resp, ra) ==
    /\ rl_pc[p] = "get"
    /\ get_log' = Append(get_log, now)
    /\ LET out == FetchOutcome(rl_attempt[p], resp)
       IN IF out = "retry" \/ (out = "none" /\ resp = "429")
          THEN /\ rl_pc' = [rl_pc EXCEPT ![p] = "backoff"]
               /\ rl_wake' = [rl_wake EXCEPT ![p] = now + FetchSleep(rl_attempt[p], resp, ra)]
               /\ UNCHANGED <<rl_attempt, rl_page>>
          ELSE /\ rl_pc' = [rl_pc EXCEPT ![p] = AfterPage(p, out)]
               /\ rl_attempt' = [rl_attempt EXCEPT ![p] = 0]
               /\ rl_page' = [rl_page EXCEPT ![p] =
                                 IF AfterPage(p, out) = "acquire" THEN @ + 1 ELSE @]
               /\ rl_wake' = rl_wake
    /\ UNCHANGED <<now, varsServices, varsLock, varsIngest, request_times, grant_log>>

\* The sleep of _fetch_page_with_retry ends: next attempt, or None when the
\* attempts are used up.
RateBackoffEnd(p) ==
    /\ rl_pc[p] = "backoff"
    /\ now >= rl_wake[p]
    /\ IF rl_attempt[p] + 1 < max_retries
       THEN /\ rl_pc' = [rl_pc EXCEPT ![p] = "get"]
            /\ rl_attempt' = [rl_attempt EXCEPT ![p] = @ + 1]
       ELSE /\ rl_pc' = [rl_pc EXCEPT ![p] = "done"]
            /\ rl_attempt' = [rl_attempt EXCEPT ![p] = 0]
    /\ UNCHANGED <<now, varsServices, varsLock, varsIngest, request_times, rl_wake, rl_page, grant_log, get_log>>

TickRate ==
    /\ now < RateMaxTime
    /\ now' = now + 1
    /\ UNCHANGED <<varsLock, varsRate, varsIngest, varsServices>>

InitRateVars ==
    /\ request_times = <<>>
    /\ rl_pc = [p \in RateCallers |-> "idle"]
    /\ rl_wake = [p \in RateCallers |-> 0]
    /\ rl_attempt = [p \in RateCallers |-> 0]
    /\ rl_page = [p \in RateCallers |-> 1]
    /\ grant_log = <<>>
    /\ get_log = <<>>

\* ======================================================== the external source
Tenants == {"t1", "t2"}
Ids == {"x1", "x2"}

\* Pages the source serves to a tenant: the external ids each page may carry.
Layout(t) == IF t = "t1" THEN << <<"x1">>, <<"x2">> >> ELSE << <<"x1", "x2">> >>

\* pagination.total_pages of every page response of a tenant.
SourceTotalPages(t) == Len(Layout(t))

\* What the source holds for a ticket: nothing, or the fields of the ticket.
\* body stands for (subject, message, status); updated_at 0 stands for a
\* ticket that carries no updated_at; created_at is the value the source
\* reports for the ticket.
Absent == [present |-> FALSE, body |-> None, updated_at |-> 0, created_at |-> 0]
Version1 == [present |-> TRUE, body |-> "urgent", updated_at |-> 1, created_at |-> 1]
Version2 == [present |-> TRUE, body |-> "plain", updated_at |-> 2, created_at |-> 1]
\* Version1 with a later updated_at and the compared fields as they were: the
\* change is in a field that sync_ticket does not compare, created_at.
Version1Touched == [present |-> TRUE, body |-> "urgent", updated_at |-> 2, created_at |-> 2]
SourceValues == {Absent, Version1, Version2, Version1Touched}
\* A ticket that carries no updated_at, with all the compared fields.
VersionUndated == [present |-> TRUE, body |-> "plain", updated_at |-> 0, created_at |-> 1]
\* A ticket that carries no updated_at and lacks the field status: body
\* "nostatus" stands for (subject, message) without a status.
VersionPartial == [present |-> TRUE, body |-> "nostatus", updated_at |-> 0, created_at |-> 1]
\* A ticket that lacks the field status and carries an updated_at.
VersionPartialDated == [present |-> TRUE, body |-> "nostatus", updated_at |-> 1, created_at |-> 1]
\* What the source may hold for a ticket when a sequence of runs starts.
ReingestValues == {Absent, Version1, VersionUndated, VersionPartial, VersionPartialDated}

RECURSIVE PresentOf(_, _)
\* The tickets of a page, in the order of the source.
PresentOf(t, ids) ==
    IF ids = <<>> THEN <<>>
    ELSE LET x == Head(ids)
             rest == PresentOf(t, Tail(ids))
         IN IF source[<<t, x>>].present
            THEN <<[id |-> x, body |-> source[<<t, x>>].body,
                    updated_at |-> source[<<t, x>>].updated_at,
                    created_at |-> source[<<t, x>>].created_at]>> \o rest
            ELSE rest

SourcePage_FirstPage(t, p) == PresentOf(t, Layout(t)[1])

\* response.json()["tickets"] of GET ...?tenant_id=t&page=p.
SourcePage(t, p) == PresentOf(t, Layout(t)[p])

\* ======================================================== ClassifyService
\* classify(): urgency of a ticket text ("urgent" is a high-urgency keyword).
Urgency(body) == IF body = "urgent" THEN "high" ELSE "low"

\* ======================================================== the store
NoTime == 0 - 1

TicketFilter_AnyTenant(d, t, x) == d.external_id = x

\* Filter {tenant_id, external_id} of the ticket upsert and of sync_ticket.
TicketFilter(d, t, x) == d.tenant_id = t /\ d.external_id = x

\* The compared fields as ticket_doc carries them: ticket_data.get(field, "")
\* puts the empty string in the place of a field the source does not send.
StoredBody(body) == IF body = "nostatus" THEN "nostatus+empty" ELSE body

\* The document an upsert inserts: the $set fields; deleted_at does not exist.
InsertedTicket(t, td) ==
    [tenant_id |-> t, external_id |-> td.id, body |-> StoredBody(td.body),
     updated_at |-> td.updated_at, created_at |-> td.created_at,
     urgency |-> Urgency(td.body), deleted_at |-> NoTime]

SetTicket_Restoring(d, t, td) ==
    [d EXCEPT !.tenant_id = t, !.external_id = td.id, !.body = StoredBody(td.body),
              !.updated_at = td.updated_at, !.created_at = td.created_at,
              !.urgency = Urgency(td.body), !.deleted_at = NoTime]

\* $set of ticket_doc on a stored ticket: every other field is kept.
SetTicket(d, t, td) ==
    [d EXCEPT !.tenant_id = t, !.external_id = td.id, !.body = StoredBody(td.body),
              !.updated_at = td.updated_at, !.created_at = td.created_at,
              !.urgency = Urgency(td.body)]

\* update_one(filter, {"$set": ticket_doc}, upsert=True).
UpsertTicket(coll, t, td) ==
    IF \E d \in coll : TicketFilter(d, t, td.id)
    THEN LET d == CHOOSE d \in coll : TicketFilter(d, t, td.id)
         IN (coll \ {d}) \cup {SetTicket(d, t, td)}
    ELSE coll \cup {InsertedTicket(t, td)}

Upserted_Always(coll, t, td) == TRUE

\* upsert_result.upserted_id is set.
Upserted(coll, t, td) == ~\E d \in coll : TicketFilter(d, t, td.id)

\* upsert_result.modified_count > 0.
Modified(coll, t, td) ==
    \E d \in coll : TicketFilter(d, t, td.id) /\ SetTicket(d, t, td) # d

\* ======================================================== SyncService
Actions == {"created", "updated", "deleted"}
HistKeys == Tenants \X Ids \X Actions

\* record_history: one more record for (tenant_id, ticket_id, action).
RecordHistory(h, t, x, a) == [h EXCEPT ![<<t, x, a>>] = @ + 1]

\* compute_changes over the compared fields: whether any differs between the
\* stored document and the ticket as the source sends it (a field that is
\* missing is None on that side).
HasChanges(existing, td) == existing.body # td.body

\* sync_ticket: whether it writes an "updated" history record.
SyncWritesUpdate(coll, t, td) ==
    \E d \in coll :
        /\ TicketFilter(d, t, td.id)
        /\ ~(td.updated_at # 0 /\ d.updated_at # 0 /\ td.updated_at <= d.updated_at)
        /\ HasChanges(d, td)

MissingFilter_In(d, t, seen) ==
    d.tenant_id = t /\ d.external_id \in seen /\ d.deleted_at = NoTime

\* Filter of detect_deleted_tickets: tickets of the tenant outside the observed
\* ids that are not soft-deleted.
MissingFilter(d, t, seen) ==
    d.tenant_id = t /\ d.external_id \notin seen /\ d.deleted_at = NoTime

DetectDeleted_AllLive(coll, t, seen) ==
    {d.external_id : d \in {e \in coll : e.tenant_id = t /\ e.deleted_at = NoTime}}

\* detect_deleted_tickets.
DetectDeleted(coll, t, seen) ==
    {d.external_id : d \in {e \in coll : MissingFilter(e, t, seen)}}

\* Filter of mark_deleted's update_many.
MarkFilter(d, t, ids) ==
    d.tenant_id = t /\ d.external_id \in ids /\ d.deleted_at = NoTime

\* mark_deleted: update_many setting deleted_at.
MarkDeleted(coll, t, ids, at) ==
    {IF MarkFilter(d, t, ids) THEN [d EXCEPT !.deleted_at = at] ELSE d : d \in coll}

RECURSIVE RecordDeleted(_, _, _)
\* mark_deleted: a "deleted" history record for every id passed.
RecordDeleted(h, t, ids) ==
    IF ids = {} THEN h
    ELSE LET x == CHOOSE x \in ids : TRUE
         IN RecordDeleted(RecordHistory(h, t, x, "deleted"), t, ids \ {x})

\* ======================================================== routes
\* GET /tickets: the query of list_tickets without the optional filters.
ListTickets(coll, t) == {d \in coll : d.tenant_id = t /\ d.deleted_at = NoTime}

\* GET /tickets/{ticket_id}: the documents find_one may return.
GetTicket(coll, x, t) ==
    {d \in coll : d.external_id = x /\ d.tenant_id = t /\ d.deleted_at = NoTime}

\* ======================================================== IngestService
Calls == {"c1", "c2", "c3"}

\* tenant_id argument of a run_ingestion call, and the tenants each call of
\* the model may be made for.
TenantOf(c) == run[c].tenant_id
TenantChoices(c) == IF c = "c3" THEN Tenants ELSE {"t1"}

\* Calls in flight: started and not returned.
Active == {c \in Calls : run[c].pc \notin {"idle", "done"}}

\* Calls are named in the order they arrive.
Earlier(c) == CASE c = "c1" -> {} [] c = "c2" -> {"c1"} [] OTHER -> {"c1", "c2"}

\* f"ingest:{tenant_id}"
Resource(t) == IF t = "t1" THEN "ingest:t1" ELSE "ingest:t2"

\* job_id = str(uuid.uuid4()) of a call is the name of the call; the _id the
\* store gives to its job row is another identifier.
Oid(c) == CASE c = "c1" -> "oid1" [] c = "c2" -> "oid2" [] OTHER -> "oid3"
JobRefs == Calls \cup {Oid(c) : c \in Calls}

\* IngestService instances: the one the runs execute on, and another one.
Instances == {"i1", "i2"}
RunInstance == "i1"

CancelCalls == {"k1"}

\* Events of the environment so far.
Events == faults + edits + Cardinality({k \in CancelCalls : cancel[k].pc # "idle"})

JobDoc(c) ==
    [_id |-> Oid(c), job_id |-> c, tenant_id |-> TenantOf(c), status |-> "running",
     total_pages |-> 0, processed_pages |-> 0, progress |-> 0, ended_at |-> NoTime]

\* update_one({"_id": job_db_id}, {"$set": {status, ended_at}}).
SetJobStatus(coll, oid, st, at) ==
    {IF j._id = oid THEN [j EXCEPT !.status = st, !.ended_at = at] ELSE j : j \in coll}

\* Filter {tenant_id, status: running} of run_ingestion's find_one.
RunningFilter(j, t) == j.tenant_id = t /\ j.status = "running"

\* Filter of cancel_job's find_one: by job_id, else by _id.
CancelFilter(j, ref) == (j.job_id = ref \/ j._id = ref) /\ j.status = "running"

\* self._cancellation_flags.get(job_id, False)
FlagSet(c) == flags[RunInstance][c] = "true"

\* int((page / total_pages) * 100) if total_pages > 0 else 0
ProgressOf(p, total) == IF total > 0 THEN (p * 100) \div total ELSE 0

\* update_one({"_id": job_db_id}, {"$set": {total_pages, processed_pages, progress}}).
SetJobProgress(coll, oid, p, total) ==
    {IF j._id = oid
     THEN [j EXCEPT !.total_pages = total, !.processed_pages = p,
                    !.progress = ProgressOf(p, total)]
     ELSE j : j \in coll}

LogDoc(c, status, err) ==
    [tenant_id |-> TenantOf(c), job_id |-> c, status |-> status, error |-> err,
     new_ingested |-> run[c].new_ingested, updated |-> run[c].updated,
     errors |-> run[c].errors]

\* Position after a ticket of the page: the next ticket, or the end of the page.
AfterTicket(todo) == IF Tail(todo) = <<>> THEN "next" ELSE "sync"

idleRun ==
    [pc |-> "idle", tenant_id |-> "t1", lock_acquired |-> FALSE, t0 |-> 0, page |-> 1, total_pages |-> 0,
     todo |-> <<>>, new_ingested |-> 0, updated |-> 0, errors |-> 0,
     all_external_ids |-> {}, deleted_ids |-> {}, final_status |-> None,
     result |-> None, ret_job_id |-> None, got_pages |-> 0, after |-> {},
     term_writes |-> 0, live_before |-> {}]

lockCallerVars == <<lk_pc, lk_res, lk_now, lk_ret, lease>>

\* run_ingestion, acquire_lock strategy 1 (find_one_and_update on an expired row).
RunAcquireUpdate(c, t) ==
    /\ run[c].pc = "idle"
    /\ t \in TenantChoices(c)
    /\ \A d \in Earlier(c) : run[d].pc # "idle"
    /\ Cardinality(Active) < MaxActive
    /\ LET r == Resource(t)
           matched == \E l \in locks : ExpiredLockFilter(l, r, now)
       IN /\ locks' = StealExpired(locks, r, c, now)
          /\ run' = [run EXCEPT ![c] =
                        [@ EXCEPT !.pc = IF matched THEN "insert_job" ELSE "lock_insert",
                                  !.tenant_id = t,
                                  !.lock_acquired = matched,
                                  !.t0 = IF matched THEN 0 ELSE now,
                                  !.after = {d \in Calls : run[d].pc = "done"
                                                           /\ run[d].tenant_id = t},
                                  !.live_before = {d.external_id : d \in ListTickets(tickets, t)}]]
    /\ order' = Append(order, c)
    /\ UNCHANGED <<now, varsServices, lockCallerVars, varsRate, source, edits, faults, tickets, jobs,
                   logs, history, notify_tasks, flags, cancel, reingested>>

\* run_ingestion, acquire_lock strategy 2 (insert_one under the unique index).
RunAcquireInsert(c) ==
    /\ run[c].pc = "lock_insert"
    /\ LET doc == LockDoc(Resource(TenantOf(c)), c, run[c].t0)
           ok == LockIndexAllows(locks, doc)
       IN /\ locks' = InsertLock(locks, doc)
          /\ run' = [run EXCEPT ![c] =
                        [@ EXCEPT !.pc = IF ok THEN "insert_job" ELSE "find_running",
                                  !.lock_acquired = ok,
                                  !.t0 = 0]]
    /\ UNCHANGED <<now, varsServices, lockCallerVars, varsRate, source, edits, faults, tickets, jobs,
                   logs, history, notify_tasks, flags, cancel, order, reingested>>

\* run_ingestion after a failed acquire_lock: find_one of a running job of the
\* tenant; with one, already_running is returned; without one, the call goes on.
FindRunning(c) ==
    /\ run[c].pc = "find_running"
    /\ \/ \E j \in jobs :
            /\ RunningFilter(j, TenantOf(c))
            /\ run' = [run EXCEPT ![c] =
                          [@ EXCEPT !.pc = "done", !.result = "already_running",
                                    !.ret_job_id = j._id]]
       \/ /\ ~\E j \in jobs : RunningFilter(j, TenantOf(c))
          /\ run' = [run EXCEPT ![c] = [@ EXCEPT !.pc = "insert_job"]]
    /\ UNCHANGED <<now, varsServices, varsLock, varsRate, source, edits, faults, tickets, jobs,
                   logs, history, notify_tasks, flags, cancel, order, reingested>>

\* insert_one(job_doc). The insert stands before the try block: when it
\* raises, the call raises to its caller and neither except nor finally runs.
InsertJob(c, fails) ==
    /\ run[c].pc = "insert_job"
    /\ fails => Events < MaxEvents
    /\ faults' = IF fails THEN faults + 1 ELSE faults
    /\ jobs' = IF fails THEN jobs ELSE jobs \cup {JobDoc(c)}
    /\ run' = [run EXCEPT ![c] =
                  IF fails THEN [@ EXCEPT !.pc = "done", !.result = "raised"]
                  ELSE [@ EXCEPT !.pc = "init_flag"]]
    /\ UNCHANGED <<now, varsServices, varsLock, varsRate, source, edits, tickets,
                   logs, history, notify_tasks, flags, cancel, order, reingested>>

\* self._cancellation_flags[job_id] = False, once the call resumes after the insert.
InitFlag(c) ==
    /\ run[c].pc = "init_flag"
    /\ flags' = [flags EXCEPT ![RunInstance][c] = "false"]
    /\ run' = [run EXCEPT ![c] = [@ EXCEPT !.pc = "loop"]]
    /\ UNCHANGED <<now, varsServices, varsLock, varsRate, source, edits, faults, tickets, jobs,
                   logs, history, notify_tasks, cancel, order, reingested>>

\* _fetch_page_with_retry over the responses the external system gives to
\* the successive attempts: the page ("return"), None or an exception.
RECURSIVE FetchPage(_, _)
FetchPage(attempt, resps) ==
    LET out == FetchOutcome(attempt, Head(resps))
    IN IF out = "retry" THEN FetchPage(attempt + 1, Tail(resps)) ELSE out

ResponseSeqs == [1..max_retries -> Responses]

\* One turn of the page loop up to the tickets of the page: the cancellation
\* check, wait_and_acquire (which returns when the limiter admits the call),
\* _fetch_page_with_retry, and the progress update of the job row.
Fetch(c, resps) ==
    /\ run[c].pc = "loop"
    /\ (~FlagSet(c) /\ resps[1] # "200") => Events < MaxEvents
    /\ LET out == FetchPage(0, resps)
           t == TenantOf(c)
           todo == SourcePage(t, run[c].page)
           total == SourceTotalPages(t)
       IN IF FlagSet(c)
          THEN /\ run' = [run EXCEPT ![c] = [@ EXCEPT !.pc = "detect"]]
               /\ UNCHANGED <<faults, jobs>>
          ELSE /\ faults' = IF resps[1] # "200" THEN faults + 1 ELSE faults
               /\ jobs' = IF out = "return"
                          THEN SetJobProgress(jobs, Oid(c), run[c].page, total)
                          ELSE jobs
               /\ run' = [run EXCEPT ![c] =
                     CASE out = "return" ->
                            [@ EXCEPT !.pc = IF todo = <<>> THEN "next" ELSE "sync",
                                      !.todo = todo,
                                      !.total_pages = total,
                                      !.got_pages = @ + 1]
                       [] out = "none" -> [@ EXCEPT !.pc = "detect"]
                       [] OTHER -> [@ EXCEPT !.pc = "fail"]]
    /\ UNCHANGED <<now, varsServices, varsLock, varsRate, source, edits, tickets,
                   logs, history, notify_tasks, flags, cancel, order, reingested>>

\* A ticket of the page: its id is recorded, then sync_ticket runs (it may
\* write an "updated" history record).
SyncTicket(c) ==
    /\ run[c].pc = "sync"
    /\ LET td == Head(run[c].todo)
           t == TenantOf(c)
       IN /\ history' = IF SyncWritesUpdate(tickets, t, td)
                        THEN RecordHistory(history, t, td.id, "updated")
                        ELSE history
          /\ run' = [run EXCEPT ![c] =
                        [@ EXCEPT !.all_external_ids = @ \cup {td.id}, !.pc = "upsert"]]
    /\ UNCHANGED <<now, varsServices, varsLock, varsRate, source, edits, faults, tickets, jobs,
                   logs, notify_tasks, flags, cancel, order, reingested>>

\* The upsert of the ticket, the counters, the "created" history record and the
\* notification task. When the write raises, the ticket is counted in errors
\* and the loop goes on with the next ticket.
Upsert(c, fails) ==
    /\ run[c].pc = "upsert"
    /\ fails => Events < MaxEvents
    /\ faults' = IF fails THEN faults + 1 ELSE faults
    /\ LET td == Head(run[c].todo)
           t == TenantOf(c)
           ins == Upserted(tickets, t, td)
           mod == Modified(tickets, t, td)
       IN IF fails
          THEN /\ run' = [run EXCEPT ![c] =
                             [@ EXCEPT !.errors = @ + 1, !.todo = Tail(@),
                                       !.pc = AfterTicket(run[c].todo)]]
               /\ UNCHANGED <<tickets, history, notify_tasks, reingested>>
          ELSE /\ tickets' = UpsertTicket(tickets, t, td)
               /\ history' = IF ins THEN RecordHistory(history, t, td.id, "created")
                             ELSE history
               /\ notify_tasks' = IF Urgency(td.body) = "high"
                                  THEN notify_tasks \cup {<<t, td.id>>}
                                  ELSE notify_tasks
               /\ reingested' =
                     IF \E d \in tickets : TicketFilter(d, t, td.id) /\ d.deleted_at # NoTime
                     THEN reingested \cup {<<t, td.id>>}
                     ELSE reingested
               /\ run' = [run EXCEPT ![c] =
                             [@ EXCEPT !.new_ingested = IF ins THEN @ + 1 ELSE @,
                                       !.updated = IF ~ins /\ mod THEN @ + 1 ELSE @,
                                       !.todo = Tail(@),
                                       !.pc = AfterTicket(run[c].todo)]]
    /\ UNCHANGED <<now, varsServices, varsLock, varsRate, source, edits, jobs,
                   logs, flags, cancel, order>>

\* End of a page: the last page ends the loop; otherwise page += 1 and the
\* lock is refreshed when page % RefreshEvery == 0.
NextPage(c) ==
    /\ run[c].pc = "next"
    /\ IF run[c].page >= run[c].total_pages
       THEN /\ run' = [run EXCEPT ![c] = [@ EXCEPT !.pc = "detect"]]
            /\ locks' = locks
       ELSE /\ run' = [run EXCEPT ![c] = [@ EXCEPT !.pc = "loop", !.page = @ + 1]]
            /\ locks' = IF (run[c].page + 1) % RefreshEvery = 0
                        THEN ExtendLock(locks, Resource(TenantOf(c)), c, now)
                        ELSE locks
    /\ UNCHANGED <<now, varsServices, lockCallerVars, varsRate, source, edits, faults, tickets, jobs,
                   logs, history, notify_tasks, flags, cancel, order, reingested>>

\* detect_deleted_tickets with the ids observed by this run.
Detect(c) ==
    /\ run[c].pc = "detect"
    /\ LET ids == DetectDeleted(tickets, TenantOf(c), run[c].all_external_ids)
       IN run' = [run EXCEPT ![c] =
                     [@ EXCEPT !.deleted_ids = ids,
                               !.pc = IF ids = {} THEN "finalize" ELSE "mark"]]
    /\ UNCHANGED <<now, varsServices, varsLock, varsRate, source, edits, faults, tickets, jobs,
                   logs, history, notify_tasks, flags, cancel, order, reingested>>

\* mark_deleted(tenant_id, deleted_ids).
Mark(c) ==
    /\ run[c].pc = "mark"
    /\ tickets' = MarkDeleted(tickets, TenantOf(c), run[c].deleted_ids, now)
    /\ history' = RecordDeleted(history, TenantOf(c), run[c].deleted_ids)
    /\ run' = [run EXCEPT ![c] = [@ EXCEPT !.pc = "finalize"]]
    /\ UNCHANGED <<now, varsServices, varsLock, varsRate, source, edits, faults, jobs,
                   logs, notify_tasks, flags, cancel, order, reingested>>

LogStatus_IgnoringErrors(errs, final_status) ==
    IF final_status = "failed" THEN "FAILED" ELSE "SUCCESS"

\* log_status of the success path.
LogStatus(errs, final_status) ==
    IF errs > 0 THEN "PARTIAL_SUCCESS"
    ELSE IF final_status = "failed" THEN "FAILED" ELSE "SUCCESS"

\* final_status and the terminal update of the job row.
Finalize(c) ==
    /\ run[c].pc = "finalize"
    /\ LET st == IF FlagSet(c) THEN "cancelled" ELSE "completed"
       IN /\ jobs' = SetJobStatus(jobs, Oid(c), st, now)
          /\ run' = [run EXCEPT ![c] =
                        [@ EXCEPT !.pc = "log", !.final_status = st,
                                  !.term_writes = @ + 1]]
    /\ UNCHANGED <<now, varsServices, varsLock, varsRate, source, edits, faults, tickets,
                   logs, history, notify_tasks, flags, cancel, order, reingested>>

\* The audit log entry of the success path and the value returned. When the
\* insert raises, the except clause runs.
Log(c, fails) ==
    /\ run[c].pc = "log"
    /\ fails => Events < MaxEvents
    /\ faults' = IF fails THEN faults + 1 ELSE faults
    /\ IF fails
       THEN /\ run' = [run EXCEPT ![c] = [@ EXCEPT !.pc = "fail"]]
            /\ logs' = logs
       ELSE /\ logs' = logs \cup
                  {LogDoc(c, LogStatus(run[c].errors, run[c].final_status), FALSE)}
            /\ run' = [run EXCEPT ![c] =
                          [@ EXCEPT !.pc = "release", !.result = run[c].final_status,
                                    !.ret_job_id = c]]
    /\ UNCHANGED <<now, varsServices, varsLock, varsRate, source, edits, tickets, jobs,
                   history, notify_tasks, flags, cancel, order, reingested>>

\* except: the audit log entry of the failure, the job row becomes failed, and
\* the exception is raised again.
Fail(c) ==
    /\ run[c].pc = "fail"
    /\ jobs' = SetJobStatus(jobs, Oid(c), "failed", now)
    /\ logs' = logs \cup {LogDoc(c, "failed", TRUE)}
    /\ run' = [run EXCEPT ![c] =
                  [@ EXCEPT !.pc = "release", !.result = "raised", !.term_writes = @ + 1]]
    /\ UNCHANGED <<now, varsServices, varsLock, varsRate, source, edits, faults, tickets,
                   history, notify_tasks, flags, cancel, order, reingested>>

\* except, when its insert_one into ingestion_logs raises: the exception leaves
\* the except clause before the update of the job row, and finally runs.
ExceptLogRaises(c) ==
    /\ run[c].pc = "fail"
    /\ run' = [run EXCEPT ![c] = [@ EXCEPT !.pc = "release", !.result = "raised"]]
    /\ UNCHANGED <<now, varsServices, varsLock, varsRate, source, edits, faults, tickets, jobs,
                   logs, history, notify_tasks, flags, cancel, order, reingested>>

\* finally: release_lock, then the cancellation flag is removed.
Release(c) ==
    /\ run[c].pc = "release"
    /\ locks' = DeleteLock(locks, Resource(TenantOf(c)), c)
    /\ flags' = [flags EXCEPT ![RunInstance][c] = "absent"]
    /\ run' = [run EXCEPT ![c] = [@ EXCEPT !.pc = "done"]]
    /\ UNCHANGED <<now, varsServices, lockCallerVars, varsRate, source, edits, faults, tickets, jobs,
                   logs, history, notify_tasks, cancel, order, reingested>>

\* cancel_job(ref) on an instance: the find_one of the running job.
CancelFind(k, ref, i) ==
    /\ cancel[k].pc = "idle"
    /\ Events < MaxEvents
    /\ \/ \E j \in jobs :
            /\ CancelFilter(j, ref)
            /\ cancel' = [cancel EXCEPT ![k] =
                             [@ EXCEPT !.pc = "set", !.job_id = j.job_id, !.inst = i]]
       \/ /\ ~\E j \in jobs : CancelFilter(j, ref)
          /\ cancel' = [cancel EXCEPT ![k] =
                           [@ EXCEPT !.pc = "done", !.ret = "false", !.inst = i]]
    /\ UNCHANGED <<now, varsServices, varsLock, varsRate, source, edits, faults, tickets, jobs,
                   logs, history, notify_tasks, flags, run, order, reingested>>

\* cancel_job: the flag of the job found is set and True is returned.
CancelSet(k) ==
    /\ cancel[k].pc = "set"
    /\ flags' = [flags EXCEPT ![cancel[k].inst][cancel[k].job_id] = "true"]
    /\ cancel' = [cancel EXCEPT ![k] = [@ EXCEPT !.pc = "done", !.ret = "true"]]
    /\ UNCHANGED <<now, varsServices, varsLock, varsRate, source, edits, faults, tickets, jobs,
                   logs, history, notify_tasks, run, order, reingested>>

\* The external system changes a ticket of tenant t1: removes it, restores it
\* or replaces its fields.
SourceEdit(x, v) ==
    /\ Events < MaxEvents
    /\ source[<<"t1", x>>] # v
    /\ source' = [source EXCEPT ![<<"t1", x>>] = v]
    /\ edits' = edits + 1
    /\ UNCHANGED <<now, varsServices, varsLock, varsRate, faults, tickets, jobs,
                   logs, history, notify_tasks, flags, run, cancel, order, reingested>>

InitIngestVars ==
    /\ source = [s \in Tenants \X Ids |->
                    IF \E p \in 1..Len(Layout(s[1])) :
                          \E i \in 1..Len(Layout(s[1])[p]) : Layout(s[1])[p][i] = s[2]
                    THEN Version1 ELSE Absent]
    /\ edits = 0
    /\ faults = 0
    /\ tickets = {}
    /\ jobs = {}
    /\ logs = {}
    /\ history = [k \in HistKeys |-> 0]
    /\ notify_tasks = {}
    /\ flags = [i \in Instances |-> [c \in Calls |-> "absent"]]
    /\ run = [c \in Calls |-> idleRun]
    /\ cancel = [k \in CancelCalls |-> [pc |-> "idle", job_id |-> None, inst |-> None,
                                        ret |-> None]]
    /\ order = <<>>
    /\ reingested = {}


\* ======================================================== NotifyService
\* NotifyService.max_retries.
notify_max_retries == 3
\* NotifyService.base_delay, in seconds.
base_delay == 1

\* The background tasks created by send_notification.
NotifyTasks == {"n1", "n2", "n3"}

\* What circuit_breaker.call(self._make_request, payload) does: it returns the
\* response, raises CircuitBreakerOpenError, or raises the error of the request.
CallOutcomes == {"ok", "open", "error"}

idleTask ==
    [pc |-> "idle", attempt |-> 0, calls |-> 0, sleeps |-> 0, slept |-> 0,
     last |-> None, ret |-> None]

NotifyOutcome_RetryWhenOpen(attempt, out) ==
    CASE out = "ok" -> "true"
      [] OTHER -> IF attempt < notify_max_retries - 1 THEN "sleep" ELSE "false"

\* One turn of the loop of _send_with_retry after the call: return True,
\* return False, or sleep and go on with the next attempt.
NotifyOutcome(attempt, out) ==
    CASE out = "ok"   -> "true"
      [] out = "open" -> "false"
      [] OTHER        -> IF attempt < notify_max_retries - 1 THEN "sleep" ELSE "false"

\* delay = base_delay * 2 ** attempt, without the jitter.
NotifyDelay(attempt) == base_delay * Pow2(attempt)

\* send_notification: asyncio.create_task(self._send_with_retry(payload)).
SendNotification(n) ==
    /\ notifier[n].pc = "idle"
    /\ notifier' = [notifier EXCEPT ![n] = [@ EXCEPT !.pc = "call"]]
    /\ UNCHANGED <<now, varsLock, varsRate, varsIngest, varsLive, varsProgress, varsRefresh, varsClassify,
                   varsStats>>

\* One attempt of _send_with_retry: the call through the circuit breaker and
\* the handling of its outcome.
NotifyAttempt(n, out) ==
    /\ notifier[n].pc = "call"
    /\ LET next == NotifyOutcome(notifier[n].attempt, out)
       IN notifier' = [notifier EXCEPT ![n] =
              [@ EXCEPT !.calls = @ + 1,
                        !.last = out,
                        !.pc = IF next = "sleep" THEN "sleep" ELSE "done",
                        !.ret = IF next = "sleep" THEN None ELSE next]]
    /\ UNCHANGED <<now, varsLock, varsRate, varsIngest, varsLive, varsProgress, varsRefresh, varsClassify,
                   varsStats>>

\* The end of asyncio.sleep(delay + jitter): the loop goes on with the next attempt.
NotifyWake(n) ==
    /\ notifier[n].pc = "sleep"
    /\ notifier' = [notifier EXCEPT ![n] =
           [@ EXCEPT !.pc = "call",
                     !.sleeps = @ + 1,
                     !.slept = @ + NotifyDelay(notifier[n].attempt),
                     !.attempt = @ + 1]]
    /\ UNCHANGED <<now, varsLock, varsRate, varsIngest, varsLive, varsProgress, varsRefresh, varsClassify,
                   varsStats>>

InitNotifyVars == notifier = [n \in NotifyTasks |-> idleTask]

\* ------------------------------------- run_ingestion with its notifications
\* The task that send_notification creates for a payload (tenant_id, ticket_id).
PayloadOf(n) ==
    CASE n = "n1" -> <<"t1", "x1">>
      [] n = "n2" -> <<"t1", "x2">>
      [] OTHER    -> <<"t2", "x1">>

NotifyBlocks_Awaited(c) ==
    \E n \in NotifyTasks :
        /\ PayloadOf(n) \in notify_tasks
        /\ PayloadOf(n)[1] = TenantOf(c)
        /\ notifier[n].pc # "done"

\* Whether run_ingestion is suspended on a notification: send_notification
\* passes the coroutine to asyncio.create_task and returns without awaiting it.
NotifyBlocks(c) == FALSE

\* The event loop starts the task created for a payload.
NotifyTaskStart(n) ==
    /\ PayloadOf(n) \in notify_tasks
    /\ SendNotification(n)

\* The call of run_ingestion that is followed together with its notifications.
FireCall == "c1"

\* A step of the call: any statement of run_ingestion with the store, the
\* source and the lock service answering without error.
FireStep(c) ==
    /\ ~NotifyBlocks(c)
    /\ \/ RunAcquireUpdate(c, "t1")
       \/ RunAcquireInsert(c)
       \/ InsertJob(c, FALSE)
       \/ InitFlag(c)
       \/ Fetch(c, [i \in 1..max_retries |-> "200"])
       \/ SyncTicket(c)
       \/ Upsert(c, FALSE)
       \/ NextPage(c)
       \/ Detect(c)
       \/ Finalize(c)
       \/ Log(c, FALSE)
       \/ Release(c)

\* ============================================ progress of a job row
\* Largest pagination.total_pages a page response carries.
MaxTotalPages == 3

\* The page loops that are followed.
ProgressRuns == {"r1", "r2", "r3"}

\* pagination.total_pages of a page response: the source chooses it anew for
\* every response.
TotalPagesValues == 1..MaxTotalPages

\* The progress fields of job_doc; total_pages 0 stands for None.
ProgressJobDoc(r) ==
    [_id |-> r, total_pages |-> 0, processed_pages |-> 0, progress |-> 0]

\* insert_one(job_doc) and page = 1.
ProgressStart(r) ==
    /\ pg_run[r].pc = "idle"
    /\ pg_jobs' = pg_jobs \cup {ProgressJobDoc(r)}
    /\ pg_run' = [pg_run EXCEPT ![r] = [@ EXCEPT !.pc = "loop"]]
    /\ UNCHANGED <<now, varsLock, varsRate, varsIngest, varsLive, varsNotify, varsRefresh, varsClassify,
                   varsStats>>

\* One turn of the page loop for a page response that carries total_pages tp:
\* the progress update of the job row, then the end of the loop when
\* page >= total_pages, or page += 1.
ProgressPage(r, tp) ==
    /\ pg_run[r].pc = "loop"
    /\ pg_jobs' = SetJobProgress(pg_jobs, r, pg_run[r].page, tp)
    /\ pg_run' = [pg_run EXCEPT ![r] =
                     IF pg_run[r].page >= tp
                     THEN [@ EXCEPT !.pc = "done", !.known = TRUE]
                     ELSE [@ EXCEPT !.page = @ + 1, !.known = TRUE]]
    /\ UNCHANGED <<now, varsLock, varsRate, varsIngest, varsLive, varsNotify, varsRefresh, varsClassify,
                   varsStats>>

InitProgressVars ==
    /\ pg_jobs = {}
    /\ pg_run = [r \in ProgressRuns |-> [pc |-> "idle", page |-> 1, known |-> FALSE]]

\* ======================================= lock refreshes of the page loop
\* Largest pagination.total_pages a page response carries in SpecRefresh.
MaxRefreshPages == 11

\* The literal 5 of `if page % 5 == 0` (RefreshEvery is its scaled value in Spec).
RefreshPages == 5

\* The page loops that are followed.
RefreshRuns == {"f1", "f2"}

RefreshDue_EveryTenth(page) == page % (2 * RefreshPages) = 0

\* if page % 5 == 0, evaluated after page += 1.
RefreshDue(page) == page % RefreshPages = 0

\* acquire_lock returned true and the page loop is entered with page = 1.
\* since counts the pages fetched after the last acquire_lock or refresh_lock
\* call, refreshes the refresh_lock calls made.
RefreshStart(r) ==
    /\ rf_run[r].pc = "idle"
    /\ rf_run' = [rf_run EXCEPT ![r] = [@ EXCEPT !.pc = "loop"]]
    /\ UNCHANGED <<now, varsLock, varsRate, varsIngest, varsLive, varsNotify, varsProgress, varsClassify,
                   varsStats>>

\* One turn of the page loop: the page is fetched (the response carries
\* total_pages tp) and processed; the loop ends when page >= total_pages,
\* otherwise page += 1 and the lock is refreshed when the new page is due.
RefreshPage(r, tp) ==
    /\ rf_run[r].pc = "loop"
    /\ rf_run' = [rf_run EXCEPT ![r] =
                     IF rf_run[r].page >= tp
                     THEN [@ EXCEPT !.pc = "done", !.since = @ + 1]
                     ELSE IF RefreshDue(rf_run[r].page + 1)
                          THEN [@ EXCEPT !.page = @ + 1, !.since = 0, !.refreshes = @ + 1]
                          ELSE [@ EXCEPT !.page = @ + 1, !.since = @ + 1]]
    /\ UNCHANGED <<now, varsLock, varsRate, varsIngest, varsLive, varsNotify, varsProgress, varsClassify,
                   varsStats>>

InitRefreshVars ==
    rf_run = [r \in RefreshRuns |-> [pc |-> "idle", page |-> 1, since |-> 0, refreshes |-> 0]]

\* ================================== run_ingestion calls sharing the limiter
\* Each caller of the limiter is a run_ingestion call with its job row. Time
\* is measured from the present instant: now stays 0, and when a second
\* passes every recorded timestamp and every wake-up time moves back by one.
\* A timestamp that left the window is kept at window_seconds + 1 seconds ago.

\* insert_one(job_doc): the job row of the call, status running.
LiveInsertJob(p) ==
    /\ rl_pc[p] = "idle"
    /\ lv_jobs[p] = "none"
    /\ lv_jobs' = [lv_jobs EXCEPT ![p] = "running"]
    /\ UNCHANGED <<now, varsLock, varsRate, varsIngest, varsNotify, varsProgress, varsRefresh,
                   varsClassify, varsStats>>

\* The call enters its page loop.
LiveLoop(p) ==
    /\ lv_jobs[p] = "running"
    /\ RateStart(p)

\* The page loop has ended (last page, None, or an exception): the terminal
\* update of the job row, on the success path or in the except clause.
LiveTerminal(p, st) ==
    /\ rl_pc[p] = "done"
    /\ lv_jobs[p] = "running"
    /\ lv_jobs' = [lv_jobs EXCEPT ![p] = st]
    /\ UNCHANGED <<now, varsLock, varsRate, varsIngest, varsNotify, varsProgress, varsRefresh,
                   varsClassify, varsStats>>

\* One second passes.
LiveTick ==
    /\ request_times' = [i \in DOMAIN request_times |->
                            Max(request_times[i] - 1, 0 - (window_seconds + 1))]
    /\ rl_wake' = [p \in RateCallers |-> Max(rl_wake[p] - 1, 0)]
    /\ UNCHANGED <<now, varsLock, rl_pc, rl_attempt, rl_page, grant_log, get_log, varsIngest,
                   varsServices>>

InitLiveVars == lv_jobs = [p \in RateCallers |-> "none"]

\* ======================================================== ClassifyService
\* One character of str.lower() (the letters A to Z; other characters stay).
LowerChar(ch) ==
    CASE ch = "A" -> "a"
      [] ch = "B" -> "b"
      [] ch = "C" -> "c"
      [] ch = "D" -> "d"
      [] ch = "E" -> "e"
      [] ch = "F" -> "f"
      [] ch = "G" -> "g"
      [] ch = "H" -> "h"
      [] ch = "I" -> "i"
      [] ch = "J" -> "j"
      [] ch = "K" -> "k"
      [] ch = "L" -> "l"
      [] ch = "M" -> "m"
      [] ch = "N" -> "n"
      [] ch = "O" -> "o"
      [] ch = "P" -> "p"
      [] ch = "Q" -> "q"
      [] ch = "R" -> "r"
      [] ch = "S" -> "s"
      [] ch = "T" -> "t"
      [] ch = "U" -> "u"
      [] ch = "V" -> "v"
      [] ch = "W" -> "w"
      [] ch = "X" -> "x"
      [] ch = "Y" -> "y"
      [] ch = "Z" -> "z"
      [] OTHER -> ch

RECURSIVE Lower(_)
\* str.lower().
Lower(str) ==
    IF str = "" THEN ""
    ELSE LowerChar(SubSeq(str, 1, 1)) \o Lower(SubSeq(str, 2, Len(str)))

\* keyword in text: substring containment.
Contains(text, keyword) ==
    \E i \in 1..(Len(text) - Len(keyword) + 1) :
        SubSeq(text, i, i + Len(keyword) - 1) = keyword

\* any(keyword in text for keyword in keywords)
AnyKeyword(keywords, text) == \E i \in 1..Len(keywords) : Contains(text, keywords[i])

high_urgency_keywords ==
    <<"urgent", "critical", "emergency", "asap", "immediately", "lawsuit",
      "legal", "lawyer", "attorney", "court", "refund", "chargeback",
      "fraud", "security breach", "data breach", "gdpr", "compliance",
      "violation", "outage", "down", "not working", "broken", "crashed">>

medium_urgency_keywords ==
    <<"issue", "problem", "error", "bug", "concern", "complaint", "unhappy",
      "dissatisfied", "disappointed">>

negative_keywords ==
    <<"angry", "frustrated", "terrible", "awful", "horrible", "worst",
      "hate", "useless", "broken", "disappointed", "unacceptable", "poor",
      "bad", "annoyed", "upset">>

positive_keywords ==
    <<"thank", "thanks", "appreciate", "great", "excellent", "good", "happy",
      "satisfied", "wonderful", "love">>

action_required_keywords ==
    <<"refund", "cancel", "delete", "remove", "fix", "help", "urgent",
      "asap", "immediately", "lawsuit", "legal", "gdpr", "compliance",
      "broken", "not working", "error", "issue">>

\* The urgency of a lowercased text.
UrgencyOf(text) ==
    IF AnyKeyword(high_urgency_keywords, text) THEN "high"
    ELSE IF AnyKeyword(medium_urgency_keywords, text) THEN "medium"
    ELSE "low"

SentimentOf_PositiveFirst(text) ==
    IF AnyKeyword(positive_keywords, text) THEN "positive"
    ELSE IF AnyKeyword(negative_keywords, text) THEN "negative"
    ELSE "neutral"

\* The sentiment of a lowercased text.
SentimentOf(text) ==
    IF AnyKeyword(negative_keywords, text) THEN "negative"
    ELSE IF AnyKeyword(positive_keywords, text) THEN "positive"
    ELSE "neutral"

\* ClassifyService.classify(message, subject).
classify(message, subject) ==
    LET text == Lower(subject \o " " \o message)
    IN [urgency |-> UrgencyOf(text),
        sentiment |-> SentimentOf(text),
        requires_action |-> AnyKeyword(action_required_keywords, text)]

\* Subjects and messages given to classify.
Subjects == {"", "Broken", "Thanks", "URGENT refund", "not", "Unhappy", "Good", "pro", "Help"}
Messages == {"", "disappointed", "great but bad", "working", "blem", "a bug", "download",
             "hello", "I love it"}

NoClassification == [urgency |-> None, sentiment |-> None, requires_action |-> FALSE]

\* A call of classify with the given subject and message.
Classify ==
    /\ cls_out = NoClassification
    /\ cls_out' = classify(cls_in.message, cls_in.subject)
    /\ UNCHANGED <<now, varsLock, varsRate, varsIngest, varsLive, varsNotify, varsProgress, varsRefresh, varsStats,
                   cls_in>>

InitClassifyVars ==
    /\ cls_in = [subject |-> "", message |-> ""]
    /\ cls_out = NoClassification

\* The inputs of classify are drawn from Subjects and Messages.
InitClassifyInputs ==
    /\ cls_in \in [subject : Subjects, message : Messages]
    /\ cls_out = NoClassification

\* ======================================================== AnalyticsService
\* Tickets in the collection that get_tenant_stats reads.
MaxStatTickets == 4

\* A ticket document as get_tenant_stats reads it; deleted stands for the
\* existence of the field deleted_at.
StatDoc(t, created, deleted, status, urgency, sentiment, customer, message) ==
    [tenant_id |-> t, created_at |-> created, deleted |-> deleted, status |-> status,
     urgency |-> urgency, sentiment |-> sentiment, customer_id |-> customer,
     message |-> message]

\* The ticket documents the collection is filled from.
StatDocs ==
    { StatDoc("t1", 1, FALSE, "open", "high", "negative", "cu1", "refund"),
      StatDoc("t1", 2, FALSE, "closed", "low", "neutral", "cu1", "the"),
      StatDoc("t1", 3, FALSE, "open", "high", "neutral", "cu1", "outage"),
      StatDoc("t1", 1, TRUE, "open", "high", "negative", "cu2", "refund"),
      StatDoc("t2", 2, FALSE, "open", "low", "negative", "cu2", "awful"),
      StatDoc("t1", 0, FALSE, "closed", "low", "negative", "cu2", "bug"),
      StatDoc("t1", 2, FALSE, "open", "high", "positive", "cu1", "thanks") }

\* (tenant_id, from_date, to_date) of the calls.
StatQueries ==
    [tenant_id : {"t1", "t2", "t3"}, from_date : {0, 1}, to_date : {2, 3}]

\* now minus 24 hours for the hourly trend facet.
TrendFrom == 2

StatSlots == 1..MaxStatTickets

match_query_WithDeleted(d, q) ==
    /\ d.tenant_id = q.tenant_id
    /\ d.created_at >= q.from_date /\ d.created_at <= q.to_date

\* match_query: tenant_id, deleted_at absent, created_at in [from, to].
match_query(d, q) ==
    /\ d.tenant_id = q.tenant_id
    /\ ~d.deleted
    /\ d.created_at >= q.from_date /\ d.created_at <= q.to_date

\* round(count / total, 3) in thousandths (round half to even).
Round3(count, total) ==
    LET q == (1000 * count) \div total
        r == (1000 * count) % total
    IN IF 2 * r > total \/ (2 * r = total /\ q % 2 = 1) THEN q + 1 ELSE q

\* The stop words and the pattern ^[a-z]{4,}$ of the keywords facet.
StopWords == {"the", "a", "an", "and", "or", "but", "in", "on", "at", "to", "for", "of",
              "with", "is", "are", "was", "were", ""}

IsKeyword(word) == word \notin StopWords /\ Len(word) >= 4

empty_stats ==
    [called |-> TRUE, total_tickets |-> 0, by_status |-> [s \in {} |-> 0],
     urgency_high_ratio |-> 0, negative_sentiment_ratio |-> 0,
     hourly_trend |-> {}, top_keywords |-> {}, at_risk_customers |-> {}]

\* The result of the aggregation over a collection for a query.
tenant_stats(coll, q) ==
    LET matched == {i \in DOMAIN coll : match_query(coll[i], q)}
        total_count == Cardinality(matched)
        statuses == {coll[i].status : i \in matched}
        by_status == [st \in statuses |->
                         Cardinality({i \in matched : coll[i].status = st})]
        urgency_high_count == Cardinality({i \in matched : coll[i].urgency = "high"})
        negative_sentiment_count ==
            Cardinality({i \in matched : coll[i].sentiment = "negative"})
        recent == {i \in matched : coll[i].created_at >= TrendFrom}
        customers == {coll[i].customer_id : i \in matched}
    IN [called |-> TRUE,
        total_tickets |-> total_count,
        by_status |-> by_status,
        urgency_high_ratio |->
            IF total_count > 0 THEN Round3(urgency_high_count, total_count) ELSE 0,
        negative_sentiment_ratio |->
            IF total_count > 0 THEN Round3(negative_sentiment_count, total_count) ELSE 0,
        hourly_trend |->
            {[hour |-> h, count |-> Cardinality({i \in recent : coll[i].created_at = h})] :
                h \in {coll[i].created_at : i \in recent}},
        top_keywords |-> {coll[i].message : i \in {j \in matched : IsKeyword(coll[j].message)}},
        at_risk_customers |->
            {c \in customers :
                Cardinality({i \in matched : /\ coll[i].customer_id = c
                                             /\ coll[i].urgency = "high"}) >= 2}]

NoStats == [empty_stats EXCEPT !.called = FALSE]

\* AnalyticsService.get_tenant_stats(tenant_id, from_date, to_date).
GetTenantStats ==
    /\ ~st_out.called
    /\ st_out' = tenant_stats(st_tickets, st_query)
    /\ UNCHANGED <<now, varsLock, varsRate, varsIngest, varsLive, varsNotify, varsProgress,
                   varsRefresh, varsClassify, st_tickets, st_query>>

InitStatsVars ==
    /\ st_tickets = [i \in StatSlots |-> StatDoc("t1", 1, FALSE, "open", "high", "negative", "cu1", "refund")]
    /\ st_query = [tenant_id |-> "t1", from_date |-> 1, to_date |-> 2]
    /\ st_out = NoStats

\* The collection and the query are drawn from StatDocs and StatQueries.
InitStatsInputs ==
    /\ st_tickets \in [StatSlots -> StatDocs]
    /\ st_query \in StatQueries
    /\ st_out = NoStats

InitServicesVars ==
    /\ InitNotifyVars
    /\ InitProgressVars
    /\ InitRefreshVars
    /\ InitLiveVars
    /\ InitClassifyVars
    /\ InitStatsVars

\* ====================================================== specifications
InitLock == now = 0 /\ InitLockVars /\ InitRateVars /\ InitIngestVars /\ InitServicesVars

NextLock ==
    \/ \E o \in LockCallers, r \in LockResources : AcquireLockUpdate(o, r)
    \/ \E o \in LockCallers : AcquireLockInsert(o)
    \/ \E o \in LockCallers, r \in LockResources : ReleaseLock(o, r)
    \/ \E o \in LockCallers, r \in LockResources : RefreshLock(o, r)
    \/ TickLock

SpecLock == InitLock /\ [][NextLock]_vars

InitRate == now = 0 /\ InitLockVars /\ InitRateVars /\ InitIngestVars /\ InitServicesVars

NextRate ==
    \/ \E p \in RateCallers : RateStart(p)
    \/ \E p \in RateCallers : WaitAndAcquire(p)
    \/ \E p \in RateCallers : RateWake(p)
    \/ \E p \in RateCallers, resp \in Responses, ra \in RetryAfterValues : RateGet(p, resp, ra)
    \/ \E p \in RateCallers : RateBackoffEnd(p)
    \/ TickRate

SpecRate == InitRate /\ [][NextRate]_vars

Init == now = 0 /\ InitLockVars /\ InitRateVars /\ InitIngestVars /\ InitServicesVars

Next ==
    \/ \E c \in Calls, t \in Tenants : RunAcquireUpdate(c, t)
    \/ \E c \in Calls : RunAcquireInsert(c)
    \/ \E c \in Calls : FindRunning(c)
    \/ \E c \in Calls, fails \in BOOLEAN : InsertJob(c, fails)
    \/ \E c \in Calls : InitFlag(c)
    \/ \E c \in Calls, resps \in ResponseSeqs : Fetch(c, resps)
    \/ \E c \in Calls : SyncTicket(c)
    \/ \E c \in Calls, fails \in BOOLEAN : Upsert(c, fails)
    \/ \E c \in Calls : NextPage(c)
    \/ \E c \in Calls : Detect(c)
    \/ \E c \in Calls : Mark(c)
    \/ \E c \in Calls : Finalize(c)
    \/ \E c \in Calls, fails \in BOOLEAN : Log(c, fails)
    \/ \E c \in Calls : Fail(c)
    \/ \E c \in Calls : Release(c)
    \/ \E k \in CancelCalls, ref \in JobRefs, i \in Instances : CancelFind(k, ref, i)
    \/ \E k \in CancelCalls : CancelSet(k)
    \/ \E x \in Ids, v \in SourceValues : SourceEdit(x, v)

Spec == Init /\ [][Next]_vars

InitNotify == now = 0 /\ InitLockVars /\ InitRateVars /\ InitIngestVars /\ InitServicesVars

NextNotify ==
    \/ \E n \in NotifyTasks : SendNotification(n)
    \/ \E n \in NotifyTasks, out \in CallOutcomes : NotifyAttempt(n, out)
    \/ \E n \in NotifyTasks : NotifyWake(n)

\* A created task is run by the event loop: its call through the circuit
\* breaker ends (the request has a timeout) and its sleep ends.
FairNotify ==
    \A n \in NotifyTasks :
        /\ WF_vars(\E out \in CallOutcomes : NotifyAttempt(n, out))
        /\ WF_vars(NotifyWake(n))

SpecNotify == InitNotify /\ [][NextNotify]_vars /\ FairNotify

InitProgress == now = 0 /\ InitLockVars /\ InitRateVars /\ InitIngestVars /\ InitServicesVars

NextProgress ==
    \/ \E r \in ProgressRuns : ProgressStart(r)
    \/ \E r \in ProgressRuns, tp \in TotalPagesValues : ProgressPage(r, tp)

InitFire == now = 0 /\ InitLockVars /\ InitRateVars /\ InitIngestVars /\ InitServicesVars

NextFire ==
    \/ FireStep(FireCall)
    \/ \E n \in NotifyTasks : NotifyTaskStart(n)
    \/ \E n \in NotifyTasks, out \in CallOutcomes : NotifyAttempt(n, out)
    \/ \E n \in NotifyTasks : NotifyWake(n)

SpecFire == InitFire /\ [][NextFire]_vars

\* Runs against a source that does not change: the tickets of tenant t1 are
\* drawn from ReingestValues when the runs start.
InitReingest ==
    /\ now = 0 /\ InitLockVars /\ InitRateVars /\ InitServicesVars
    /\ source \in [Tenants \X Ids -> ReingestValues]
    /\ \A x \in Ids : source[<<"t2", x>>] = Absent
    /\ edits = 0
    /\ faults = 0
    /\ tickets = {}
    /\ jobs = {}
    /\ logs = {}
    /\ history = [k \in HistKeys |-> 0]
    /\ notify_tasks = {}
    /\ flags = [i \in Instances |-> [c \in Calls |-> "absent"]]
    /\ run = [c \in Calls |-> idleRun]
    /\ cancel = [k \in CancelCalls |-> [pc |-> "idle", job_id |-> None, inst |-> None,
                                        ret |-> None]]
    /\ order = <<>>
    /\ reingested = {}

\* The runs of SpecReingest: one after the other, every store call and every
\* request succeeding.
ReingestCalls == {"c1", "c2"}

ReingestStart(c) ==
    /\ Active = {}
    /\ RunAcquireUpdate(c, "t1")

NextReingest ==
    \/ \E c \in ReingestCalls : ReingestStart(c)
    \/ \E c \in ReingestCalls : RunAcquireInsert(c)
    \/ \E c \in ReingestCalls : InsertJob(c, FALSE)
    \/ \E c \in ReingestCalls : InitFlag(c)
    \/ \E c \in ReingestCalls : Fetch(c, [i \in 1..max_retries |-> "200"])
    \/ \E c \in ReingestCalls : SyncTicket(c)
    \/ \E c \in ReingestCalls : Upsert(c, FALSE)
    \/ \E c \in ReingestCalls : NextPage(c)
    \/ \E c \in ReingestCalls : Detect(c)
    \/ \E c \in ReingestCalls : Finalize(c)
    \/ \E c \in ReingestCalls : Log(c, FALSE)
    \/ \E c \in ReingestCalls : Release(c)

SpecReingest == InitReingest /\ [][NextReingest]_vars

\* run_ingestion calls whose requests and store calls may fail, the insert of
\* the except clause included.
InitFaults == now = 0 /\ InitLockVars /\ InitRateVars /\ InitIngestVars /\ InitServicesVars

FaultCalls == {"c1", "c2"}

NextFaults ==
    \/ \E c \in FaultCalls : RunAcquireUpdate(c, "t1")
    \/ \E c \in FaultCalls : RunAcquireInsert(c)
    \/ \E c \in FaultCalls : FindRunning(c)
    \/ \E c \in FaultCalls, fails \in BOOLEAN : InsertJob(c, fails)
    \/ \E c \in FaultCalls : InitFlag(c)
    \/ \E c \in FaultCalls, resps \in ResponseSeqs : Fetch(c, resps)
    \/ \E c \in FaultCalls : SyncTicket(c)
    \/ \E c \in FaultCalls, fails \in BOOLEAN : Upsert(c, fails)
    \/ \E c \in FaultCalls : NextPage(c)
    \/ \E c \in FaultCalls : Detect(c)
    \/ \E c \in FaultCalls : Mark(c)
    \/ \E c \in FaultCalls : Finalize(c)
    \/ \E c \in FaultCalls, fails \in BOOLEAN : Log(c, fails)
    \/ \E c \in FaultCalls : Fail(c)
    \/ \E c \in FaultCalls : ExceptLogRaises(c)
    \/ \E c \in FaultCalls : Release(c)

SpecFaults == InitFaults /\ [][NextFaults]_vars

\* Runs that start with the tickets of tenant t1 stored by an earlier run,
\* against a source that may have lost any of them since and does not change
\* during the runs.
InitReconcile ==
    /\ now = 0 /\ InitLockVars /\ InitRateVars /\ InitServicesVars
    /\ source \in [Tenants \X Ids -> {Version1, Absent}]
    /\ \A x \in Ids : source[<<"t2", x>>] = Absent
    /\ edits = 0
    /\ faults = 0
    /\ tickets = {InsertedTicket("t1", [id |-> x, body |-> Version1.body,
                                         updated_at |-> Version1.updated_at,
                                         created_at |-> Version1.created_at]) : x \in Ids}
    /\ jobs = {}
    /\ logs = {}
    /\ history = [k \in HistKeys |-> IF k[1] = "t1" /\ k[3] = "created" THEN 1 ELSE 0]
    /\ notify_tasks = {<<"t1", x>> : x \in Ids}
    /\ flags = [i \in Instances |-> [c \in Calls |-> "absent"]]
    /\ run = [c \in Calls |-> idleRun]
    /\ cancel = [k \in CancelCalls |-> [pc |-> "idle", job_id |-> None, inst |-> None,
                                        ret |-> None]]
    /\ order = <<>>
    /\ reingested = {}

SpecReconcile == InitReconcile /\ [][NextFaults]_vars

InitLive == now = 0 /\ InitLockVars /\ InitRateVars /\ InitIngestVars /\ InitServicesVars

NextLive ==
    \/ \E p \in RateCallers : LiveInsertJob(p)
    \/ \E p \in RateCallers : LiveLoop(p)
    \/ \E p \in RateCallers : WaitAndAcquire(p)
    \/ \E p \in RateCallers : RateWake(p)
    \/ \E p \in RateCallers, resp \in Responses, ra \in RetryAfterValues : RateGet(p, resp, ra)
    \/ \E p \in RateCallers : RateBackoffEnd(p)
    \/ \E p \in RateCallers, st \in {"completed", "failed"} : LiveTerminal(p, st)
    \/ LiveTick

\* Time advances, every request gets a response, every store call returns and
\* the event loop runs every call that can go on.
FairLive ==
    /\ WF_vars(LiveTick)
    /\ \A p \in RateCallers :
          /\ WF_vars(LiveLoop(p))
          /\ WF_vars(WaitAndAcquire(p))
          /\ WF_vars(RateWake(p))
          /\ WF_vars(\E resp \in Responses, ra \in RetryAfterValues : RateGet(p, resp, ra))
          /\ WF_vars(RateBackoffEnd(p))
          /\ WF_vars(\E st \in {"completed", "failed"} : LiveTerminal(p, st))

SpecLive == InitLive /\ [][NextLive]_vars /\ FairLive

SpecProgress == InitProgress /\ [][NextProgress]_vars

InitRefresh == now = 0 /\ InitLockVars /\ InitRateVars /\ InitIngestVars /\ InitServicesVars

NextRefresh ==
    \/ \E r \in RefreshRuns : RefreshStart(r)
    \/ \E r \in RefreshRuns, tp \in 1..MaxRefreshPages : RefreshPage(r, tp)

SpecRefresh == InitRefresh /\ [][NextRefresh]_vars

InitClassify ==
    /\ now = 0 /\ InitLockVars /\ InitRateVars /\ InitIngestVars
    /\ InitNotifyVars /\ InitProgressVars /\ InitRefreshVars /\ InitLiveVars /\ InitStatsVars
    /\ InitClassifyInputs

NextClassify == Classify

SpecClassify == InitClassify /\ [][NextClassify]_vars

InitStats ==
    /\ now = 0 /\ InitLockVars /\ InitRateVars /\ InitIngestVars
    /\ InitNotifyVars /\ InitProgressVars /\ InitRefreshVars /\ InitLiveVars /\ InitClassifyVars
    /\ InitStatsInputs

NextStats == GetTenantStats

SpecStats == InitStats /\ [][NextStats]_vars

\* ============================================================ claims
\* A caller holds an unexpired lease on a resource: acquire_lock returned true
\* to it, it has not released since, and the expires_at it obtained has not
\* passed.
HoldsLease(o, r) == lease[o].res = r /\ now <= lease[o].exp

\* C3: one lock row per resource_id, and at most one caller at a time holds an
\* unexpired lease on a resource.
C3_AtMostOneHolder ==
    /\ \A l1, l2 \in locks : l1.resource_id = l2.resource_id => l1 = l2
    /\ \A r \in LockResources : \A o1, o2 \in LockCallers :
          HoldsLease(o1, r) /\ HoldsLease(o2, r) => o1 = o2

\* C3 witness: a caller holds a lease it took over from another caller whose
\* lease expired and who has not released.
C3_Witness ==
    \E o1, o2 \in LockCallers : \E r \in LockResources :
        /\ o1 # o2
        /\ HoldsLease(o1, r)
        /\ lease[o2].res = r /\ lease[o2].exp < now
        /\ \E l \in locks : l.resource_id = r /\ l.owner_id = o1

\* Number of entries of a log of times that lie in [t, t + window_seconds).
InWindow(log, t) ==
    Cardinality({i \in 1..Len(log) : log[i] >= t /\ log[i] < t + window_seconds})

\* C6: every window of window_seconds holds at most requests_per_minute
\* returns of wait_and_acquire.
C6_GrantsWithinLimit ==
    \A t \in 0..RateMaxTime : InWindow(grant_log, t) <= requests_per_minute

\* C7: every window of window_seconds holds at most requests_per_minute
\* GET requests, retries included.
C7_GetsWithinLimit ==
    \A t \in 0..RateMaxTime : InWindow(get_log, t) <= requests_per_minute

\* Positions of a call that has inserted its job row and is in the page loop or
\* the reconciliation.
InJob == {"init_flag", "loop", "sync", "upsert", "next", "detect", "mark", "finalize"}

\* C1: of the calls of a tenant that are in flight together, one runs the
\* ingestion and the others are refused with already_running: two calls of the
\* same tenant are never both running an ingestion job.
C1_OneRunsOthersRefused ==
    \A c, d \in Calls :
        (c # d /\ TenantOf(c) = TenantOf(d) /\ run[c].pc \in InJob) => run[d].pc \notin InJob

\* C2: for each tenant at most one ingestion_jobs row has status running.
C2_AtMostOneRunningJob ==
    \A t \in Tenants : Cardinality({j \in jobs : RunningFilter(j, t)}) <= 1

\* C4: when cancel_job returned true for a job and the run of that job has
\* ended, the job row has status cancelled.
C4_CancelledJobEndsCancelled ==
    \A k \in CancelCalls : \A c \in Calls :
        (cancel[k].ret = "true" /\ cancel[k].job_id = c /\ run[c].pc = "done")
            => \A j \in jobs : j.job_id = c => j.status = "cancelled"

\* C5: a run sets deleted_at on a ticket only when it fetched every page of the
\* source.
C5_DeletesOnlyAfterFullEnumeration ==
    [][\A c \in Calls :
          (run[c].pc = "mark" /\ run'[c].pc = "finalize" /\ tickets' # tickets)
              => run[c].got_pages = SourceTotalPages(TenantOf(c))]_vars

\* Runs of a tenant so far (calls made for it and not refused with
\* already_running), and the first of them.
StartedFor(t) ==
    {c \in Calls : run[c].pc # "idle" /\ TenantOf(c) = t /\ run[c].result # "already_running"}
FirstFor(t) ==
    order[CHOOSE i \in 1..Len(order) :
             /\ order[i] \in StartedFor(t)
             /\ \A j \in 1..(i - 1) : order[j] \notin StartedFor(t)]

RECURSIVE NewIngestedOf(_)
\* Sum of new_ingested over a set of calls.
NewIngestedOf(S) ==
    IF S = {} THEN 0
    ELSE LET c == CHOOSE c \in S : TRUE
         IN run[c].new_ingested + NewIngestedOf(S \ {c})

TicketsOf(t) == {d \in tickets : d.tenant_id = t}

\* The first call of a tenant ran alone and completed a full enumeration
\* without errors.
FirstRanAloneAndComplete(t) ==
    LET f == FirstFor(t)
    IN /\ run[f].pc = "done" /\ run[f].result = "completed" /\ run[f].errors = 0
       /\ run[f].got_pages = SourceTotalPages(t)
       /\ \A d \in StartedFor(t) \ {f} : f \in run[d].after

LeavesOtherTenants(t) ==
    /\ {d \in tickets' : d.tenant_id # t} = {d \in tickets : d.tenant_id # t}
    /\ \A k \in HistKeys : k[1] # t => history'[k] = history[k]

\* Every ticket created for a tenant has its own row, and listing and lookup for
\* a tenant return tickets of that tenant only.
RowsPerTenant ==
    /\ \A t \in Tenants : \A x \in Ids :
          history[<<t, x, "created">>] > 0 =>
              Cardinality({d \in tickets : d.tenant_id = t /\ d.external_id = x}) = 1
    /\ \A t \in Tenants : \A d \in ListTickets(tickets, t) : d.tenant_id = t
    /\ \A t \in Tenants : \A x \in Ids : \A d \in GetTicket(tickets, x, t) : d.tenant_id = t

\* C9: the same external_id ingested under two tenants is two rows, a call of
\* run_ingestion for a tenant changes no ticket and no history record of another
\* tenant, and listing and lookup return tickets of the asking tenant only.
C9_TenantIsolation ==
    /\ []RowsPerTenant
    /\ [][\A c \in Calls : run'[c] # run[c] => LeavesOtherTenants(run'[c].tenant_id)]_vars

\* C9 witness: both tenants have ingested external_id x1, and each has its row.
C9_Witness ==
    /\ \E c \in Calls : TenantOf(c) = "t2" /\ run[c].pc = "done"
    /\ \E d \in ListTickets(tickets, "t1") : d.external_id = "x1"
    /\ \E d \in ListTickets(tickets, "t2") : d.external_id = "x1"

\* C10: a ticket that has deleted_at set keeps its row and its deleted_at in
\* every step.
C10_DeletedAtKept ==
    [][\A d \in tickets :
          d.deleted_at # NoTime =>
              \E e \in tickets' : /\ e.tenant_id = d.tenant_id
                                  /\ e.external_id = d.external_id
                                  /\ e.deleted_at = d.deleted_at]_vars

\* C10 witness: a soft-deleted ticket was observed again at the source and
\* upserted, and it is still soft-deleted.
C10_Witness ==
    \E k \in reingested :
        \E d \in tickets : /\ d.tenant_id = k[1] /\ d.external_id = k[2]
                            /\ d.deleted_at # NoTime

\* Audit log entries of a job.
LogsOf(c) == {l \in logs : l.job_id = c}

\* C11: a call that has ended after creating its job row has written one audit
\* log entry and one terminal status; a call refused with already_running has
\* written no log entry.
C11_OneLogOneTerminalWrite ==
    \A c \in Calls :
        run[c].pc = "done" =>
            IF run[c].result = "already_running"
            THEN LogsOf(c) = {}
            ELSE (\E j \in jobs : j._id = Oid(c))
                    => Cardinality(LogsOf(c)) = 1 /\ run[c].term_writes = 1

\* C12: the status of every audit log entry is FAILED when the run failed,
\* PARTIAL_SUCCESS when it finished with errors > 0, and SUCCESS otherwise.
C12_LogStatusChosen ==
    \A l \in logs :
        l.status = IF l.error THEN "FAILED"
                   ELSE IF l.errors > 0 THEN "PARTIAL_SUCCESS" ELSE "SUCCESS"

\* C13: in every step a job row keeps its status or leaves running, and after
\* the step ended_at is set exactly on the rows whose status is terminal.
C13_TerminalStatusKept ==
    [][/\ \A j \in jobs : \E k \in jobs' :
             k._id = j._id /\ (k.status = j.status \/ j.status = "running")
       /\ \A k \in jobs' : (k.ended_at # NoTime) <=> (k.status # "running")]_vars

\* The step in which a call ends its deletion reconciliation.
EndsReconciliation(c) == run[c].pc \in {"detect", "mark"} /\ run'[c].pc = "finalize"

\* C14: when a run that fetched every page of the source and observed the ids S
\* ends its reconciliation, every ticket of the tenant that was not soft-deleted
\* when the run started and is outside S has deleted_at set and a "deleted"
\* history record, the tickets inside S are as they were before the step, and
\* listing and lookup return no soft-deleted ticket.
C14_Reconciled ==
    [][\A c \in Calls :
          (EndsReconciliation(c) /\ run[c].got_pages = SourceTotalPages(TenantOf(c))) =>
              LET t == TenantOf(c)
                  S == run[c].all_external_ids
              IN /\ \A x \in run[c].live_before \ S :
                        /\ \E d \in tickets' : /\ d.tenant_id = t /\ d.external_id = x
                                               /\ d.deleted_at # NoTime
                        /\ history'[<<t, x, "deleted">>] > 0
                 /\ \A d \in tickets : (d.tenant_id = t /\ d.external_id \in S) => d \in tickets'
                 /\ \A d \in ListTickets(tickets', t) : d.deleted_at = NoTime
                 /\ \A x \in Ids : \A d \in GetTicket(tickets', x, t) : d.deleted_at = NoTime]_vars

\* C14 witness: a run that fetched every page has ended after soft-deleting a
\* ticket that was listed when it started and that it did not observe.
C14_Witness ==
    \E c \in Calls :
        /\ run[c].pc = "done" /\ run[c].got_pages = SourceTotalPages(TenantOf(c))
        /\ \E x \in run[c].live_before \ run[c].all_external_ids :
              /\ x \in run[c].deleted_ids
              /\ \E d \in tickets : /\ d.tenant_id = TenantOf(c) /\ d.external_id = x
                                    /\ d.deleted_at # NoTime
              /\ GetTicket(tickets, x, TenantOf(c)) = {}

RECURSIVE UpdatedOf(_)
\* Sum of updated over a set of calls.
UpdatedOf(S) ==
    IF S = {} THEN 0
    ELSE LET c == CHOOSE c \in S : TRUE
         IN run[c].updated + UpdatedOf(S \ {c})

RECURSIVE HistoryCount(_, _, _)
\* Number of history records of a tenant with an action, over a set of ids.
HistoryCount(t, a, ids) ==
    IF ids = {} THEN 0
    ELSE LET x == CHOOSE x \in ids : TRUE
         IN history[<<t, x, a>>] + HistoryCount(t, a, ids \ {x})

\* C15: when no call is in progress, each tenant has as many "created" records
\* as tickets created, as many "updated" records as modifications applied to
\* stored tickets, and as many "deleted" records as tickets soft-deleted.
C15_HistoryMatchesChanges ==
    (\A c \in Calls : run[c].pc \in {"idle", "done"}) =>
        \A t \in Tenants :
            /\ HistoryCount(t, "created", Ids) = Cardinality(TicketsOf(t))
            /\ HistoryCount(t, "updated", Ids) = UpdatedOf(StartedFor(t))
            /\ HistoryCount(t, "deleted", Ids) =
                   Cardinality({d \in TicketsOf(t) : d.deleted_at # NoTime})

\* C16: release_lock and refresh_lock called by a caller that does not own the
\* row of the resource return false and leave the distributed_locks collection
\* (owner_id, acquired_at and expires_at of the owner's row) unchanged.
C16_NonOwnerNoOp ==
    [][\A o \in LockCallers : \A r \in LockResources :
          (/\ ReleaseLock(o, r) \/ RefreshLock(o, r)
           /\ ~(\E l \in locks : l.resource_id = r /\ l.owner_id = o))
          => /\ locks' = locks
             /\ lk_ret'[o] \in {"release:false", "refresh:false"}]_vars

\* C16 witness: a caller whose lease expired and whose row was taken over by
\* another caller has called refresh and then release, release returned false,
\* and the new owner still holds its row and its lease.
C16_Witness ==
    \E o1, o2 \in LockCallers : \E r \in LockResources :
        /\ o1 # o2
        /\ lease[o2].lost = {"refresh", "release"}
        /\ lk_ret[o2] = "release:false"
        /\ HoldsLease(o1, r)
        /\ \E l \in locks : l.resource_id = r /\ l.owner_id = o1
                            /\ l.expires_at = lease[o1].exp

\* C17: a run_ingestion call to which acquire_lock returned false returns
\* already_running with new_ingested = updated = errors = 0 and writes nothing:
\* it goes no further than the look-up of the running job, and no job row and
\* no audit log entry carries its job_id.
C17_RefusedCallWritesNothing ==
    \A c \in Calls :
        (~run[c].lock_acquired /\ run[c].pc \notin {"idle", "lock_insert", "find_running"})
        => /\ run[c].pc = "done"
           /\ run[c].result = "already_running"
           /\ run[c].new_ingested = 0 /\ run[c].updated = 0 /\ run[c].errors = 0
           /\ run[c].got_pages = 0
           /\ ~(\E j \in jobs : j.job_id = c)
           /\ LogsOf(c) = {}

\* C18: the job_id carried by an already_running result is the job_id field of
\* a job row of the tenant, the identifier that the running call itself returns.
C18_AlreadyRunningCarriesJobId ==
    \A c \in Calls :
        run[c].result = "already_running"
        => \E j \in jobs : /\ j.tenant_id = TenantOf(c)
                           /\ j.job_id = run[c].ret_job_id

\* C19: in _fetch_page_with_retry a 429 response consumes no attempt: a page
\* fetch of a run that is not cancelled, answered by 429 responses and
\* otherwise by 2xx responses only, returns the page, and the run goes on with it.
C19_429ConsumesNoAttempt ==
    [][\A c \in Calls : \A resps \in ResponseSeqs :
          (/\ Fetch(c, resps)
           /\ ~FlagSet(c)
           /\ \A i \in 1..max_retries : resps[i] \in {"429", "200"})
          => /\ run'[c].got_pages = run[c].got_pages + 1
             /\ run'[c].pc \in {"sync", "next"}]_vars

\* The call raised out of the page loop: it never computed a final status.
FetchFailed(c) ==
    /\ run[c].result = "raised"
    /\ run[c].final_status = None
    /\ \E j \in jobs : j._id = Oid(c)

\* C20: a page fetch that fails with a non-429 error on all 3 attempts makes
\* run_ingestion raise: the job row ends failed with ended_at set, the audit log
\* entry of the call carries the error and the counters reached so far, the
\* tickets stored before the failure stay as they are, and the run performs no
\* deletion reconciliation.
C20_FetchFailureAborts ==
    [][\A c \in Calls :
          /\ (Fetch(c, [i \in 1..max_retries |-> "error"]) /\ ~FlagSet(c))
                => run'[c].pc = "fail"
          /\ (run[c].pc = "fail" /\ run[c].final_status = None)
                => run'[c].pc \in {"fail", "release"}
          /\ (run[c].pc \in {"fail", "release"} /\ run[c].final_status = None
              /\ run'[c] # run[c])
                => /\ tickets' = tickets
                   /\ history' = history
                   /\ run'[c].pc \in {"release", "done"}
          /\ FetchFailed(c)'
                => /\ run'[c].deleted_ids = {}
                   /\ \E j \in jobs' : /\ j._id = Oid(c)
                                       /\ j.status = "failed"
                                       /\ j.ended_at # NoTime
                   /\ \E l \in logs' : /\ l.job_id = c
                                       /\ l.error
                                       /\ l.new_ingested = run'[c].new_ingested
                                       /\ l.updated = run'[c].updated
                                       /\ l.errors = run'[c].errors]_vars

\* C20 witness: a call stored a ticket of page 1, its fetch of page 2 failed,
\* and it has returned by raising; the ticket is stored, the job row is failed.
C20_Witness ==
    \E c \in Calls :
        /\ FetchFailed(c)
        /\ run[c].pc = "done"
        /\ run[c].new_ingested = 1
        /\ run[c].got_pages = 1
        /\ \E d \in tickets : d.tenant_id = run[c].tenant_id /\ d.deleted_at = NoTime
        /\ \E j \in jobs : j._id = Oid(c) /\ j.status = "failed"
        /\ \E l \in logs : l.job_id = c /\ l.error /\ l.new_ingested = 1

RECURSIVE ErrorsOf(_)
\* Sum of the errors counters of a set of calls.
ErrorsOf(S) ==
    IF S = {} THEN 0
    ELSE LET c == CHOOSE c \in S : TRUE IN run[c].errors + ErrorsOf(S \ {c})

\* C21: an exception raised while a ticket is processed adds one to errors and
\* the loop goes on with the next ticket of the page or with the end of the
\* page; it does not make the run fail (a run fails only on a fault that is
\* not a ticket error); a run with errors that ends ends completed or
\* cancelled in its job row, with the audit log status PARTIAL_SUCCESS.
C21_TicketErrorSwallowed ==
    [][\A c \in Calls :
          /\ Upsert(c, TRUE)
                => /\ run'[c].errors = run[c].errors + 1
                   /\ run'[c].new_ingested = run[c].new_ingested
                   /\ run'[c].updated = run[c].updated
                   /\ run'[c].todo = Tail(run[c].todo)
                   /\ run'[c].pc = IF run'[c].todo = <<>> THEN "next" ELSE "sync"
          /\ (run'[c].pc = "fail" \/ run'[c].result = "raised")
                => faults' > ErrorsOf(Calls)'
          /\ (run'[c].errors > 0 /\ run'[c].pc \in {"release", "done"}
              /\ run'[c].result # "raised")
                => /\ run'[c].result \in {"completed", "cancelled"}
                   /\ \E j \in jobs' : j._id = Oid(c) /\ j.status = run'[c].result
                   /\ \A l \in logs' : l.job_id = c => l.status = "PARTIAL_SUCCESS"
                   /\ \E l \in logs' : l.job_id = c /\ l.errors = run'[c].errors]_vars

\* C21 witness: the first ticket of a page of two raised while it was
\* processed, the second ticket of the page was stored, and the run ended
\* completed with the audit log status PARTIAL_SUCCESS.
C21_Witness ==
    \E c \in Calls :
        /\ run[c].pc = "done"
        /\ run[c].tenant_id = "t2"
        /\ run[c].errors = 1
        /\ run[c].new_ingested = 1
        /\ run[c].result = "completed"
        /\ \E d \in tickets : d.tenant_id = "t2" /\ d.external_id = "x2"
        /\ ~(\E d \in tickets : d.tenant_id = "t2" /\ d.external_id = "x1")
        /\ \E l \in logs : l.job_id = c /\ l.status = "PARTIAL_SUCCESS" /\ l.errors = 1

\* C22: when acquire_lock returned true to a run_ingestion call, no lock row
\* owned by its job_id remains once the call has returned or raised.
C22_LockReleasedOnEveryPath ==
    \A c \in Calls :
        (run[c].lock_acquired /\ run[c].pc = "done")
        => ~(\E l \in locks : l.resource_id = Resource(TenantOf(c)) /\ l.owner_id = c)

\* C23: within one run the pages whose tickets are processed are 1, 2, ..., k
\* in ascending order, with no gap and no page twice: the page number only
\* grows, by one, and only when the tickets of the page are finished; the n-th
\* page obtained is page n and its tickets are those the source serves for
\* page n, in the order of the source; the tickets of a page are upserted one
\* by one from the head of that sequence.
C23_PagesAndTicketsInOrder ==
    [][\A c \in Calls :
          /\ run'[c].page \in {run[c].page, run[c].page + 1}
          /\ run'[c].page = run[c].page + 1
                => /\ run[c].pc = "next" /\ run[c].todo = <<>>
                   /\ run[c].got_pages = run[c].page
                   /\ run'[c].got_pages = run[c].got_pages
          /\ run'[c].got_pages # run[c].got_pages
                => /\ run'[c].got_pages = run[c].got_pages + 1
                   /\ run'[c].page = run'[c].got_pages
                   /\ run[c].todo = <<>>
                   /\ run'[c].todo = PresentOf(TenantOf(c), Layout(TenantOf(c))[run'[c].page])
          /\ (run'[c].todo # run[c].todo /\ run'[c].got_pages = run[c].got_pages)
                => /\ run[c].pc = "upsert"
                   /\ run'[c].todo = Tail(run[c].todo)
                   /\ tickets' # tickets
                         => \E d \in tickets' \ tickets :
                               /\ d.tenant_id = TenantOf(c)
                               /\ d.external_id = Head(run[c].todo).id]_vars

\* C23 witness: a run of tenant t1 has processed its pages 1 and 2, and a run
\* of tenant t2 is between the two tickets of its page: the first one is
\* stored, the second one is the next to be processed and is not stored yet.
C23_Witness ==
    /\ \E c \in Calls :
          /\ run[c].tenant_id = "t1" /\ run[c].pc = "done"
          /\ run[c].page = 2 /\ run[c].got_pages = 2 /\ run[c].new_ingested = 2
    /\ \E c \in Calls :
          /\ run[c].tenant_id = "t2" /\ run[c].pc = "sync"
          /\ Len(run[c].todo) = 1 /\ run[c].todo[1].id = "x2"
          /\ \E d \in tickets : d.tenant_id = "t2" /\ d.external_id = "x1"
          /\ ~(\E d \in tickets : d.tenant_id = "t2" /\ d.external_id = "x2")

\* C24: a notification task calls the circuit breaker at most 3 times, ends at
\* the first success, makes no attempt after a circuit-open outcome, sleeps
\* between attempts only (never after its last one), returns true or false
\* without raising, and always terminates.
C24_NotifyRetriesBounded ==
    /\ [](\A n \in NotifyTasks :
            /\ notifier[n].calls <= 3
            /\ notifier[n].last \in {"ok", "open"} => notifier[n].pc = "done"
            /\ notifier[n].pc = "done"
                  => /\ notifier[n].ret \in {"true", "false"}
                     /\ notifier[n].ret = "true" <=> notifier[n].last = "ok"
                     /\ notifier[n].sleeps = notifier[n].calls - 1
                     /\ notifier[n].last = "error" => notifier[n].calls = 3
            /\ notifier[n].pc = "call" => notifier[n].sleeps = notifier[n].calls
            /\ notifier[n].pc = "sleep" => notifier[n].calls < 3)
    /\ \A n \in NotifyTasks : (notifier[n].pc = "call") ~> (notifier[n].pc = "done")

\* C24 witness: one task ended after three failed attempts and two sleeps of
\* 1 s and 2 s, one ended at a circuit-open outcome of its second attempt, and
\* one ended at the success of its second attempt.
C24_Witness ==
    \E n1, n2, n3 \in NotifyTasks :
        /\ notifier[n1].pc = "done" /\ notifier[n1].calls = 3 /\ notifier[n1].sleeps = 2
        /\ notifier[n1].slept = 3 /\ notifier[n1].ret = "false"
        /\ notifier[n2].pc = "done" /\ notifier[n2].last = "open" /\ notifier[n2].calls = 2
        /\ notifier[n2].ret = "false"
        /\ notifier[n3].pc = "done" /\ notifier[n3].last = "ok" /\ notifier[n3].calls = 2
        /\ notifier[n3].ret = "true"

\* C25: a lock row blocks other callers for at most the TTL: an acquire_lock
\* whose find_one_and_update meets a row of the resource with expires_at
\* earlier than the caller's now returns true, and acquire_lock returns false
\* only while the row of the resource has an expires_at that is not in the past.
C25_RefusedOnlyWhileUnexpired ==
    [][\A o \in LockCallers : \A r \in LockResources :
          /\ (/\ AcquireLockUpdate(o, r)
              /\ \E l \in locks : l.resource_id = r /\ l.expires_at < now)
                => lk_ret'[o] = "acquire:true"
          /\ (/\ AcquireLockInsert(o)
              /\ lk_res[o] = r
              /\ lk_ret'[o] = "acquire:false")
                => \E l \in locks : l.resource_id = r /\ l.expires_at >= now]_vars

\* C26: the created_at of a stored ticket is fixed by its first insert: no
\* step changes the created_at of a ticket row that exists.
C26_CreatedAtImmutable ==
    [][\A d \in tickets : \A e \in tickets' :
          (e.tenant_id = d.tenant_id /\ e.external_id = d.external_id)
          => e.created_at = d.created_at]_vars

\* C27: in every state of every job row progress is an integer from 0 to 100,
\* and processed_pages does not exceed total_pages once total_pages is known,
\* whatever total_pages the page responses carry.
C27_ProgressInRange ==
    \A j \in pg_jobs :
        /\ j.progress \in 0..100
        /\ pg_run[j._id].known => j.processed_pages <= j.total_pages

\* C30: once a run_ingestion call has terminated, the cancellation-flag map of
\* its instance holds no entry for its job_id, whatever cancel_job calls ran
\* beside it; and a flag that cancel_job set to true is never overwritten
\* with false.
C30_FlagsRemovedAndKept ==
    /\ [](\A c \in Calls : run[c].pc = "done" => flags[RunInstance][c] = "absent")
    /\ [][\A i \in Instances : \A c \in Calls :
             flags[i][c] = "true" => flags'[i][c] # "false"]_vars

\* The lowercased text 'subject message' of the input of classify.
ClassifiedText == Lower(cls_in.subject \o " " \o cls_in.message)

Occurs(keyword) == Contains(ClassifiedText, keyword)

HighOccurs == \E i \in 1..Len(high_urgency_keywords) : Occurs(high_urgency_keywords[i])
MediumOccurs == \E i \in 1..Len(medium_urgency_keywords) : Occurs(medium_urgency_keywords[i])
NegativeOccurs == \E i \in 1..Len(negative_keywords) : Occurs(negative_keywords[i])
PositiveOccurs == \E i \in 1..Len(positive_keywords) : Occurs(positive_keywords[i])
ActionOccurs == \E i \in 1..Len(action_required_keywords) : Occurs(action_required_keywords[i])

\* C28: classify decides by substring containment on the lowercased text
\* 'subject message': urgency is high whenever a high keyword occurs, medium
\* only when no high keyword and some medium keyword occurs, else low;
\* sentiment is negative whenever a negative keyword occurs, positive only
\* when no negative and some positive keyword occurs, else neutral;
\* requires_action is true iff an action keyword occurs; and 'Broken' with
\* 'disappointed' gives high / negative / true.
C28_ClassifyByContainment ==
    cls_out # NoClassification =>
        /\ cls_out.urgency = "high" <=> HighOccurs
        /\ cls_out.urgency = "medium" <=> (~HighOccurs /\ MediumOccurs)
        /\ cls_out.urgency = "low" <=> (~HighOccurs /\ ~MediumOccurs)
        /\ cls_out.sentiment = "negative" <=> NegativeOccurs
        /\ cls_out.sentiment = "positive" <=> (~NegativeOccurs /\ PositiveOccurs)
        /\ cls_out.sentiment = "neutral" <=> (~NegativeOccurs /\ ~PositiveOccurs)
        /\ cls_out.requires_action <=> ActionOccurs
        /\ (cls_in.subject = "Broken" /\ cls_in.message = "disappointed")
              => cls_out = [urgency |-> "high", sentiment |-> "negative",
                            requires_action |-> TRUE]
        /\ (cls_in.subject = "not" /\ cls_in.message = "working")
              => cls_out.urgency = "high"
        /\ (cls_in.subject = "pro" /\ cls_in.message = "blem")
              => cls_out.urgency = "low"
        /\ (cls_in.subject = "" /\ cls_in.message = "download")
              => cls_out.urgency = "high"

\* C28 witness: classify has returned for a text in which a positive and a
\* negative keyword both occur, and the sentiment is negative.
C28_Witness ==
    /\ cls_out # NoClassification
    /\ cls_in.message = "great but bad"
    /\ PositiveOccurs /\ NegativeOccurs
    /\ cls_out.sentiment = "negative"

\* The tickets that the claim says are counted: of the tenant, without
\* deleted_at, created in [from, to].
CountedSlots ==
    {i \in DOMAIN st_tickets :
        /\ st_tickets[i].tenant_id = st_query.tenant_id
        /\ ~st_tickets[i].deleted
        /\ st_query.from_date <= st_tickets[i].created_at
        /\ st_tickets[i].created_at <= st_query.to_date}

CountedHigh == Cardinality({i \in CountedSlots : st_tickets[i].urgency = "high"})
CountedNegative == Cardinality({i \in CountedSlots : st_tickets[i].sentiment = "negative"})

RECURSIVE SumOver(_, _)
SumOver(f, dom) ==
    IF dom = {} THEN 0
    ELSE LET x == CHOOSE y \in dom : TRUE IN f[x] + SumOver(f, dom \ {x})

\* A ratio in thousandths is the quotient count / total rounded to 3 places.
IsRounded(ratio, count, total) ==
    /\ 2 * (ratio * total - 1000 * count) <= total
    /\ 2 * (1000 * count - ratio * total) <= total

\* C29 (amended): get_tenant_stats counts exactly the tickets of the tenant
\* without deleted_at and with created_at in [from, to]; the by_status counts
\* sum to total_tickets; the two ratios are count / total_tickets rounded to
\* 3 decimal places; with no such ticket the result is total 0, ratios 0.0
\* and every other facet empty.
C29_StatsCountMatchedRounded ==
    st_out.called =>
        /\ st_out.total_tickets = Cardinality(CountedSlots)
        /\ SumOver(st_out.by_status, DOMAIN st_out.by_status) = st_out.total_tickets
        /\ \A st \in DOMAIN st_out.by_status :
              st_out.by_status[st] =
                  Cardinality({i \in CountedSlots : st_tickets[i].status = st})
        /\ CountedSlots # {} =>
              /\ IsRounded(st_out.urgency_high_ratio, CountedHigh,
                           Cardinality(CountedSlots))
              /\ IsRounded(st_out.negative_sentiment_ratio, CountedNegative,
                           Cardinality(CountedSlots))
        /\ CountedSlots = {} =>
              /\ st_out.total_tickets = 0
              /\ st_out.urgency_high_ratio = 0
              /\ st_out.negative_sentiment_ratio = 0
              /\ DOMAIN st_out.by_status = {}
              /\ st_out.hourly_trend = {}
              /\ st_out.top_keywords = {}
              /\ st_out.at_risk_customers = {}

\* C29 witness: a call has returned for a collection that holds a deleted
\* ticket of the tenant in the range besides three counted tickets, one of
\* them of high urgency, and the ratio returned is 0.333.
C29_Witness ==
    /\ st_out.called
    /\ st_out.total_tickets = 3
    /\ CountedHigh = 1
    /\ st_out.urgency_high_ratio = 333
    /\ \E i \in DOMAIN st_tickets :
          /\ st_tickets[i].deleted
          /\ st_tickets[i].tenant_id = st_query.tenant_id
          /\ st_query.from_date <= st_tickets[i].created_at
          /\ st_tickets[i].created_at <= st_query.to_date

\* C29 as stated: the two ratios equal the count divided by total_tickets.
C29_RatiosExact ==
    (st_out.called /\ st_out.total_tickets > 0) =>
        /\ st_out.urgency_high_ratio * st_out.total_tickets = 1000 * CountedHigh
        /\ st_out.negative_sentiment_ratio * st_out.total_tickets = 1000 * CountedNegative

\* C31: a call of acquire returns 0 exactly when the queue after eviction
\* holds fewer than requests_per_minute timestamps, and then it has appended
\* now; otherwise it returns a positive wait and leaves the evicted queue.
C31_ZeroExactlyWhenRecorded ==
    [][\A p \in RateCallers :
          WaitAndAcquire(p) =>
              LET q == Evict(request_times, now)
              IN IF Len(q) < requests_per_minute
                 THEN /\ rl_pc'[p] = "get"
                      /\ request_times' = Append(q, now)
                 ELSE /\ rl_pc'[p] = "sleep"
                      /\ rl_wake'[p] > now
                      /\ request_times' = q]_vars

\* C32: refresh_lock returns true exactly when a row of the resource owned by
\* the caller exists, whatever its expires_at; then the row carries
\* now + LOCK_TTL_SECONDS afterwards with owner_id and acquired_at unchanged.
C32_RefreshTrueIffMatched ==
    [][\A o \in LockCallers : \A r \in LockResources :
          RefreshLock(o, r) =>
              /\ lk_ret'[o] = "refresh:true"
                    <=> \E l \in locks : l.resource_id = r /\ l.owner_id = o
              /\ \A l \in locks :
                    (l.resource_id = r /\ l.owner_id = o) =>
                        [l EXCEPT !.expires_at = now + LOCK_TTL_SECONDS] \in locks']_vars

\* C33: a page loop never fetches more than 5 consecutive pages without a
\* lock acquisition or a refresh_lock call between them, whatever total_pages
\* the responses carry.
C33_RefreshWithinFivePages ==
    \A r \in RefreshRuns : rf_run[r].since <= 5

\* C33 witness: a page loop has called refresh_lock and has fetched 5 pages
\* since that call.
C33_Witness ==
    \E r \in RefreshRuns : rf_run[r].refreshes >= 1 /\ rf_run[r].since = 5

\* A step of a notification task.
NotifierStep ==
    \E n \in NotifyTasks :
        \/ NotifyTaskStart(n)
        \/ \E out \in CallOutcomes : NotifyAttempt(n, out)
        \/ NotifyWake(n)

\* What the run of FireCall has written when it has returned, with the source
\* of tenant t1 (two pages, one high-urgency ticket each) and no error.
FireRunResult ==
    /\ run[FireCall].result = "completed"
    /\ run[FireCall].new_ingested = 2 /\ run[FireCall].updated = 0 /\ run[FireCall].errors = 0
    /\ run[FireCall].got_pages = 2
    /\ run[FireCall].all_external_ids = {"x1", "x2"}
    /\ \A j \in jobs : j.status = "completed" /\ j.processed_pages = 2
    /\ \A l \in logs : /\ l.status = "SUCCESS" /\ l.job_id = FireCall
                       /\ l.new_ingested = 2 /\ l.updated = 0 /\ l.errors = 0
    /\ Cardinality(jobs) = 1 /\ Cardinality(logs) = 1
    /\ {d.external_id : d \in tickets} = {"x1", "x2"}

C35_NoHistoryForUnchangedSource ==
    \A k \in HistKeys :
        /\ k[3] = "updated" => history[k] = 0
        /\ k[3] = "created" => history[k] <= 1
        /\ k[3] = "deleted" => history[k] = 0

\* C36: a job row has status completed, and an audit log entry has status
\* SUCCESS or PARTIAL_SUCCESS, only for a run that fetched and processed every
\* page from 1 to the total_pages the source reports.
C36_CompletedOnlyAfterAllPages ==
    \A c \in Calls :
        (\/ \E j \in jobs : j.job_id = c /\ j.status = "completed"
         \/ \E l \in logs : l.job_id = c /\ l.status \in {"SUCCESS", "PARTIAL_SUCCESS"})
            => run[c].got_pages = SourceTotalPages(TenantOf(c))

\* C37: a run that acquired the lock releases it only after its job row has
\* a terminal status: no run has gone through release_lock while the job row
\* it created still has status running.
C37_ReleaseOnlyAfterTerminalStatus ==
    \A c \in Calls :
        (run[c].pc = "done" /\ run[c].lock_acquired)
            => ~\E j \in jobs : j.job_id = c /\ j.status = "running"

\* The external ids that appeared on the pages a run has fetched (the source
\* does not change during the runs of SpecReconcile).
FetchedIds(c) ==
    {x \in Ids : \E p \in 1..run[c].got_pages :
        \E i \in 1..Len(SourcePage(TenantOf(c), p)) : SourcePage(TenantOf(c), p)[i].id = x}

\* C39: the deletion reconciliation of a run never sets deleted_at on a ticket
\* whose external_id appeared on a page the run fetched, whether or not the
\* upsert of that ticket succeeded.
C39_ErroredTicketStillObserved ==
    [][\A c \in Calls :
          Mark(c) =>
              /\ run[c].deleted_ids \cap FetchedIds(c) = {}
              /\ \A d \in tickets :
                    (d.tenant_id = TenantOf(c) /\ d.external_id \in FetchedIds(c))
                        => d \in tickets']_vars

\* C39 witness: a run whose upsert of x1 raised has fetched both pages and has
\* marked the ticket x2 as deleted, and the stored ticket x1 is not deleted.
C39_Witness ==
    \E c \in Calls :
        /\ run[c].pc = "done" /\ run[c].errors = 1 /\ run[c].got_pages = 2
        /\ run[c].deleted_ids = {"x2"}
        /\ FetchedIds(c) = {"x1"}
        /\ run[c].new_ingested = 0 /\ run[c].updated = 0
        /\ \E d \in tickets : d.tenant_id = "t1" /\ d.external_id = "x1"
                              /\ d.deleted_at = NoTime
        /\ \E d \in tickets : d.tenant_id = "t1" /\ d.external_id = "x2"
                              /\ d.deleted_at # NoTime

\* C38: every call that created a job ends with its job row in a terminal
\* status, and every wait_and_acquire returns, when time advances, requests
\* are answered, total_pages is finite and the store calls succeed.
C38_EveryRunTerminates ==
    \A p \in RateCallers :
        /\ (lv_jobs[p] = "running")
              ~> (rl_pc[p] = "done" /\ lv_jobs[p] \in {"completed", "failed"})
        /\ (rl_pc[p] \in {"acquire", "sleep"}) ~> (rl_pc[p] \in {"get", "backoff", "done"})
        /\ [](lv_jobs[p] \in {"completed", "failed"} => rl_pc[p] = "done")

\* C38 witness: a call has ended with its job row completed after fetching
\* its last page, while the other call sleeps in wait_and_acquire.
C38_Witness ==
    \E p, o \in RateCallers :
        /\ lv_jobs[p] = "completed" /\ rl_pc[p] = "done" /\ rl_page[p] = RatePages
        /\ rl_pc[o] = "sleep" /\ rl_wake[o] > 0 /\ lv_jobs[o] = "running"

====
